---- MODULE Spec2Model ----
(***************************************************************************)
(* Webhook ingestion pipeline of postgrest-mcp: the handler handleHook of  *)
(* src/src/mcp.ts with its helpers and the signature codec of              *)
(* src/src/utils/webhook.ts, over an external store holding the receiver   *)
(* directory, the table catalog, the target table and the attempt ledger   *)
(* (webhook_receiver_logs).                                                *)
(*                                                                         *)
(* One handler execution is a process; it advances one store operation at  *)
(* a time (every await on the store is a point where another execution may *)
(* run).  Strings are TLA+ strings; "" stands for a header that is absent  *)
(* or empty: the handler only ever tests headers for truthiness.           *)
(*                                                                         *)
(* The helpers that touch no request state (payload filtering, the choice  *)
(* between insert and upsert) are also applied on their own, to inputs     *)
(* drawn from bounded sets; call holds the inputs and outputs of such an   *)
(* application and stays NoCall while the handler runs.                    *)
(***************************************************************************)
EXTENDS Integers, Sequences, FiniteSets, Bags, TLC

VARIABLES pc, rq, resp, ops, snap, ledger, rows, writes, now, started, call, db, pools

vars == <<pc, rq, resp, ops, snap, ledger, rows, writes, now, started, call, db, pools>>

\* ------------------------------------------------------------------ bounds

\* Handler executions that can overlap.
Procs == {1, 2}

\* Deliveries submitted in one behaviour.
MaxRequests == 2

\* Seconds the server clock advances in one behaviour.
MaxTicks == 1

\* Server clock (epoch seconds) at the start of a behaviour.
ClockStart == 100

\* ------------------------------------------------------- result codes

SUCCESS == 10
SIGNATURE_FAILED == 20
INVALID_JSON == 30
TABLE_NOT_FOUND == 40
INSERT_FAILED == 50

\* ------------------------------------------------------- signature codec

\* HMAC-SHA256 followed by base64, as a collision-free symbolic digest of
\* (key, message): equal outputs exactly for equal key and message bytes.
HmacSha256Base64(secret, message) == "<" \o secret \o "|" \o message \o ">"

\* Faulty variant, for comparison: each field of the signed message is delimited on both sides.
computeWebhookSignatureDelimited(webhookId, webhookTimestamp, body, secret) ==
  LET message == "[" \o webhookId \o "][" \o webhookTimestamp \o "][" \o body \o "]"
  IN  "v1," \o HmacSha256Base64(secret, message)

\* Faulty variant, for comparison: the timestamp is left out of the signed message.
computeWebhookSignatureNoTimestamp(webhookId, webhookTimestamp, body, secret) ==
  LET message == webhookId \o "." \o body
  IN  "v1," \o HmacSha256Base64(secret, message)

computeWebhookSignature(webhookId, webhookTimestamp, body, secret) ==
  LET message == webhookId \o "." \o webhookTimestamp \o "." \o body
  IN  "v1," \o HmacSha256Base64(secret, message)

verifyWebhookSignature(webhookId, webhookTimestamp, body, secret, providedSignature) ==
  computeWebhookSignature(webhookId, webhookTimestamp, body, secret) = providedSignature

\* ------------------------------------------------------- external store: read-only parts

\* webhook_receivers rows; secret "" is SQL NULL (falsy in the handler).
Receivers ==
  { [id |-> 123, table_name |-> "customers",         auth_type |-> "hmac", secret |-> "sk"],
    [id |-> 124, table_name |-> "customers",         auth_type |-> "none", secret |-> ""],
    [id |-> 125, table_name |-> "nonexistent_table", auth_type |-> "hmac", secret |-> "sk"],
    [id |-> 126, table_name |-> "customers",         auth_type |-> "hmac", secret |-> ""],
    [id |-> 127, table_name |-> "customers",         auth_type |-> "none", secret |-> "sk"] }

NoReceiver == [id |-> 0, table_name |-> "", auth_type |-> "", secret |-> ""]

\* tables rows: table_name -> id_column.
Tables == [t \in {"customers"} |-> "id"]

\* fields rows of each catalogued table.
Fields == [t \in {"customers"} |-> {"id", "customer_name", "email", "status"}]

\* ------------------------------------------------------- deliveries

\* Path segment :id and what parseInt makes of it; -1 stands for NaN.
NaN == -1
parseInt(s) ==
  CASE s = "123" -> 123 [] s = "124" -> 124 [] s = "125" -> 125
    [] s = "126" -> 126 [] s = "127" -> 127 [] s = "999" -> 999
    [] s = "100" -> 100 [] s = "101" -> 101 [] s = "102" -> 102
    [] OTHER -> NaN

\* Number.prototype.toString on the values the model uses.
toString(n) ==
  CASE n = 100 -> "100" [] n = 101 -> "101" [] n = 102 -> "102"
    [] n = 123 -> "123" [] n = 124 -> "124" [] n = 125 -> "125"
    [] n = 126 -> "126" [] n = 127 -> "127" [] n = 999 -> "999"
    [] OTHER -> "NaN"

\* Bodies a sender submits, and JSON.parse of each; a body outside the
\* domain of JsonDocs makes JSON.parse throw.
BodyFull == "{\"id\":1,\"customer_name\":\"a\",\"extra\":\"x\"}"
BodyNoId == "{\"customer_name\":\"b\"}"
BodyBad  == "not json"

JsonDocs ==
  (BodyFull :> [k \in {"id", "customer_name", "extra"} |->
                  CASE k = "id" -> "1" [] k = "customer_name" -> "a" [] OTHER -> "x"])
  @@ (BodyNoId :> [k \in {"customer_name"} |-> "b"])

\* Header names as senders spell them, and String.prototype.toLowerCase.
toLowerCase(k) ==
  CASE k = "Webhook-Id" -> "webhook-id"
    [] k = "Webhook-Timestamp" -> "webhook-timestamp"
    [] k = "Webhook-Signature" -> "webhook-signature"
    [] OTHER -> k

Spell(upper, k) ==
  IF ~upper THEN k
  ELSE CASE k = "webhook-id" -> "Webhook-Id"
         [] k = "webhook-timestamp" -> "Webhook-Timestamp"
         [] OTHER -> "Webhook-Signature"

\* The headers map of an envelope: only the headers given a value are keys.
MkHeaders(upper, wid, wts, wsig) ==
  LET given == [k \in {"webhook-id", "webhook-timestamp", "webhook-signature"} |->
                  CASE k = "webhook-id" -> wid
                    [] k = "webhook-timestamp" -> wts
                    [] OTHER -> wsig]
      keys == {k \in DOMAIN given : given[k] # ""}
  IN  [r \in {Spell(upper, k) : k \in keys} |-> given[toLowerCase(r)]]

WebhookIds == {"", "m1"}
Timestamps == {"", "100"}

\* The webhook-signature header a sender supplies: none, one that matches
\* nothing, or the one computed with the shared secret "sk".
Signature(kind, wid, wts, body) ==
  CASE kind = "none" -> ""
    [] kind = "bad" -> "v1,bad"
    [] OTHER -> computeWebhookSignature(wid, wts, body, "sk")

\* Envelopes: "unparseable" is a request body that is not JSON (c.req.json()
\* throws), "null" is the JSON value null, "object" a JSON object.
ObjectDeliveries(ids, uppers, wids, tss, kinds, bodies) ==
  { [id |-> i, env |-> "object", hasHeaders |-> TRUE,
     headers |-> MkHeaders(u, w, t, Signature(k, w, t, b)), body |-> b] :
      i \in ids, u \in uppers, w \in wids, t \in tss, k \in kinds, b \in bodies }

MalformedDeliveries ==
  { [id |-> i, env |-> e, hasHeaders |-> h, headers |-> <<>>, body |-> b] :
      <<i, e, h, b>> \in
        { x \in {"123", "abc"} \X {"unparseable", "null", "object"} \X BOOLEAN \X {"", BodyFull} :
            /\ (x[2] # "object" => (~x[3] /\ x[4] = ""))
            /\ (x[2] = "object" => (~x[3] \/ x[4] = "")) } }

\* Receiver 124 is sent every combination of webhook-id and timestamp, its
\* key coming from each header in turn; receiver 123 is always sent a
\* timestamp, and lacks the webhook-id, the signature or both; header names in
\* mixed case for one delivery to each of them; for receiver 126 and the paths
\* that resolve to no receiver the headers play no part in the outcome;
\* receiver 127 keys by its secret; receiver 125 names a table without
\* catalog entry.
Deliveries ==
  ObjectDeliveries({"124"}, {FALSE}, WebhookIds, Timestamps, {"none"}, {BodyFull, BodyBad})
    \cup ObjectDeliveries({"124"}, {FALSE}, WebhookIds, {"100"}, {"bad"}, {BodyFull})
    \cup ObjectDeliveries({"123"}, {FALSE}, {"m1"}, {"100"}, {"bad", "good"},
                          {BodyFull, BodyBad})
    \cup ObjectDeliveries({"123"}, {FALSE}, WebhookIds, {"100"}, {"none"}, {BodyFull})
    \cup ObjectDeliveries({"123"}, {FALSE}, {""}, {"100"}, {"bad"}, {BodyFull})
    \cup ObjectDeliveries({"123", "124"}, {TRUE}, {"m1"}, {"100"}, {"bad"}, {BodyFull})
    \cup ObjectDeliveries({"126"}, {FALSE}, WebhookIds, {"100"}, {"good"}, {BodyFull})
    \cup ObjectDeliveries({"127"}, {FALSE}, WebhookIds, {"100"}, {"none", "bad"}, {BodyFull})
    \cup ObjectDeliveries({"125"}, {FALSE}, {"m1"}, {"100"}, {"good"}, {BodyFull})
    \cup ObjectDeliveries({"999", "abc"}, {FALSE}, {"m1"}, {"100"}, {"good"}, {BodyFull})
    \cup MalformedDeliveries

\* Deliveries of the retry specification.
RetryDeliveries ==
  ObjectDeliveries({"123"}, {FALSE}, {"m1"}, {"100"}, {"bad", "good"}, {BodyFull, BodyBad})
    \cup ObjectDeliveries({"124"}, {FALSE}, {"", "m1"}, Timestamps, {"none"},
                          {BodyFull, BodyBad})

\* Deliveries of the overlapping-executions specification.
ConcDeliveries ==
  ObjectDeliveries({"123", "124"}, {FALSE}, {"m1"}, {"100"}, {"bad", "good"},
                   {BodyFull, BodyBad})

\* ------------------------------------------------------- responses and ledger entries

Resp(status, success, error, message, details) ==
  [status |-> status, success |-> success, error |-> error,
   message |-> message, details |-> details]

NoResp == Resp(0, FALSE, "", "", "")

InternalError == Resp(500, FALSE, "Internal server error", "", "store error")

Entry(rid, key, ts, result, errorMessage) ==
  [webhook_receiver_id |-> rid, webhook_id |-> key, webhook_timestamp |-> ts,
   result |-> result, error_message |-> errorMessage]

NoLog == Entry(0, "", 0, 0, "")

\* ------------------------------------------------------- the store handle

\* The module-level handle of db/client.ts before its first use (null);
\* a created handle is the number of its creation.
NoDatabase == 0

\* Faulty variant, for comparison: every call creates a handle of its own.
getDatabaseFresh(current, created) == current + 1

\* getDatabase, with the connection string configured: when the module holds
\* no handle one is created, over a pool of its own, and it is returned as it
\* is on every later call.  The value is both what the module keeps and what
\* the caller gets; created is the number of pools the process has created.
getDatabase(current, created) == IF current = NoDatabase THEN created + 1 ELSE current

\* The pools created once getDatabase has returned.
poolsCreated(current, created) == IF current = NoDatabase THEN created + 1 ELSE created

\* ------------------------------------------------------- request-local state

OpKinds == {"findReceiver", "isDuplicate", "jsonParse", "getTable", "getFields",
            "rowWrite", "ledgerWrite"}

NoOps == [k \in OpKinds |-> 0]

\* Locals of one execution.  seq numbers the deliveries in order of arrival;
\* path, env, hasHeaders and tsHeader (the webhook-timestamp header, before
\* the default) keep the request as it arrived; fault names the
\* store read that threw, wrote and logged tell how the row write and the
\* ledger write ended, thrown is the message of the error the row write threw,
\* db is the store handle the execution obtained on entry, dup what the
\* duplicate check answered ("found" or "none").
NoRq == [seq |-> 0, path |-> "", env |-> "", hasHeaders |-> FALSE,
         rid |-> 0, wid |-> "", tsHeader |-> "", ts |-> "", sig |-> "", body |-> "",
         receiver |-> NoReceiver, key |-> "", idColumn |-> "", fieldNames |-> {},
         log |-> NoLog, after |-> NoResp, fault |-> "", wrote |-> "",
         thrown |-> "", logged |-> "", db |-> NoDatabase, dup |-> ""]

NoSnap == [ledger |-> EmptyBag, rows |-> EmptyBag]

\* No helper is being applied on its own.
NoCall == [stage |-> "none"]

Get(headers, k) == IF k \in DOMAIN headers THEN headers[k] ELSE ""

\* Headers re-keyed by their lower-cased names.
NormalizeHeaders(raw) ==
  [k \in {toLowerCase(r) : r \in DOMAIN raw} |->
     raw[CHOOSE r \in DOMAIN raw : toLowerCase(r) = k]]

Bump(p, kind) == [ops EXCEPT ![p][kind] = @ + 1]

\* ------------------------------------------------------- helpers of the handler

\* Faulty variant, for comparison: the lookup falls back to a default receiver instead of no row.
findWebhookReceiverOrDefault(webhookReceiverId) ==
  IF \E r \in Receivers : r.id = webhookReceiverId
  THEN CHOOSE r \in Receivers : r.id = webhookReceiverId
  ELSE CHOOSE r \in Receivers : r.id = 123

findWebhookReceiver(webhookReceiverId) ==
  IF \E r \in Receivers : r.id = webhookReceiverId
  THEN CHOOSE r \in Receivers : r.id = webhookReceiverId
  ELSE NoReceiver

\* Faulty variant, for comparison: the signature is demanded whatever the auth_type.
validateSignatureAlways(receiver, webhookId, webhookTimestampStr, bodyStr, webhookSignature) ==
  IF receiver.secret = ""
    THEN [valid |-> FALSE, error |-> "HMAC secret not configured"]
  ELSE IF webhookId = "" \/ webhookSignature = ""
    THEN [valid |-> FALSE,
          error |-> "Missing webhook-id or webhook-signature for HMAC validation"]
  ELSE IF verifyWebhookSignature(webhookId, webhookTimestampStr, bodyStr,
                                 receiver.secret, webhookSignature)
    THEN [valid |-> TRUE, error |-> ""]
  ELSE [valid |-> FALSE, error |-> "Signature verification failed"]

\* Faulty variant, for comparison: the presence of the headers is checked, the signature is not verified.
validateSignatureUnverified(receiver, webhookId, webhookTimestampStr, bodyStr, webhookSignature) ==
  IF receiver.auth_type # "hmac" THEN [valid |-> TRUE, error |-> ""]
  ELSE IF receiver.secret = ""
    THEN [valid |-> FALSE, error |-> "HMAC secret not configured"]
  ELSE IF webhookId = "" \/ webhookSignature = ""
    THEN [valid |-> FALSE,
          error |-> "Missing webhook-id or webhook-signature for HMAC validation"]
  ELSE [valid |-> TRUE, error |-> ""]

validateSignature(receiver, webhookId, webhookTimestampStr, bodyStr, webhookSignature) ==
  IF receiver.auth_type # "hmac" THEN [valid |-> TRUE, error |-> ""]
  ELSE IF receiver.secret = ""
    THEN [valid |-> FALSE, error |-> "HMAC secret not configured"]
  ELSE IF webhookId = "" \/ webhookSignature = ""
    THEN [valid |-> FALSE,
          error |-> "Missing webhook-id or webhook-signature for HMAC validation"]
  ELSE IF verifyWebhookSignature(webhookId, webhookTimestampStr, bodyStr,
                                 receiver.secret, webhookSignature)
    THEN [valid |-> TRUE, error |-> ""]
  ELSE [valid |-> FALSE, error |-> "Signature verification failed"]

\* Faulty variant, for comparison: the fallback always keys by the content, whatever the receiver's secret.
computeIdempotencyKeyContentOnly(receiver, webhookId, webhookTimestampStr, bodyStr, webhookSignature, webhookReceiverId) ==
  IF receiver.auth_type = "hmac" /\ webhookId # "" THEN webhookId
  ELSE IF receiver.secret # "" /\ webhookId # ""
    THEN computeWebhookSignature(webhookId, webhookTimestampStr, bodyStr, receiver.secret)
  ELSE IF webhookSignature # "" THEN webhookSignature
  ELSE computeWebhookSignature(IF webhookId # "" THEN webhookId ELSE "anon",
                               webhookTimestampStr, bodyStr,
                               toString(webhookReceiverId) \o "-"
                                 \o webhookTimestampStr \o "-" \o bodyStr)

\* Faulty variant, for comparison: the key starts as the webhook-id and is replaced only while empty.
computeIdempotencyKeyIdFirst(receiver, webhookId, webhookTimestampStr, bodyStr, webhookSignature, webhookReceiverId) ==
  IF receiver.auth_type # "hmac" /\ receiver.secret # "" /\ webhookId # ""
    THEN computeWebhookSignature(webhookId, webhookTimestampStr, bodyStr, receiver.secret)
  ELSE IF webhookId # "" THEN webhookId
  ELSE IF webhookSignature # "" THEN webhookSignature
  ELSE computeWebhookSignature("anon", webhookTimestampStr, bodyStr,
                               IF receiver.secret # "" THEN receiver.secret
                               ELSE toString(webhookReceiverId) \o "-"
                                      \o webhookTimestampStr \o "-" \o bodyStr)

computeIdempotencyKey(receiver, webhookId, webhookTimestampStr, bodyStr, webhookSignature, webhookReceiverId) ==
  IF receiver.auth_type = "hmac" /\ webhookId # "" THEN webhookId
  ELSE IF receiver.secret # "" /\ webhookId # ""
    THEN computeWebhookSignature(webhookId, webhookTimestampStr, bodyStr, receiver.secret)
  ELSE IF webhookSignature # "" THEN webhookSignature
  ELSE LET idempotencySource ==
             toString(webhookReceiverId) \o "-" \o webhookTimestampStr \o "-" \o bodyStr
       IN  computeWebhookSignature(IF webhookId # "" THEN webhookId ELSE "anon",
                                   webhookTimestampStr, bodyStr,
                                   IF receiver.secret # "" THEN receiver.secret
                                   ELSE idempotencySource)

\* Ledger rows selected by the duplicate check.
LedgerMatches(webhookReceiverId, idempotencyKey) ==
  { e \in BagToSet(ledger) : /\ e.webhook_receiver_id = webhookReceiverId
                             /\ e.webhook_id = idempotencyKey }

\* Faulty variant, for comparison: only entries of successful attempts count as duplicates.
isDuplicateRequestOfSuccess(webhookReceiverId, idempotencyKey) ==
  \E e \in LedgerMatches(webhookReceiverId, idempotencyKey) : e.result = SUCCESS

isDuplicateRequest(webhookReceiverId, idempotencyKey) ==
  LedgerMatches(webhookReceiverId, idempotencyKey) # {}

getTableMetadata(tableName) == tableName \in DOMAIN Tables

getFieldNames(tableName) ==
  IF tableName \in DOMAIN Fields THEN Fields[tableName] ELSE {}

\* Faulty variant, for comparison: every payload key is copied, known to the table or not.
filterWebhookDataAll(webhookData, fieldNames) == webhookData

filterWebhookData(webhookData, fieldNames) ==
  [k \in {key \in DOMAIN webhookData : key \in fieldNames} |-> webhookData[k]]

\* Faulty variant, for comparison: a null value of the identity column counts as a value.
hasIdValueDefined(webhookData, idColumn) ==
  /\ idColumn # ""
  /\ idColumn \in DOMAIN webhookData

\* insertOrUpsertData upserts on idColumn when the parsed payload carries a
\* defined, non-null value for it; "null" is the JSON value null.
hasIdValue(webhookData, idColumn) ==
  /\ idColumn # ""
  /\ idColumn \in DOMAIN webhookData
  /\ webhookData[idColumn] # "null"

\* The statement insertOrUpsertData issues: its kind, the row it carries and
\* the conflict target of an upsert.
Statement(insertData, webhookData, idColumn) ==
  IF hasIdValue(webhookData, idColumn)
  THEN [kind |-> "upsert", row |-> insertData, conflict |-> idColumn]
  ELSE [kind |-> "insert", row |-> insertData, conflict |-> ""]

NoStatement == [kind |-> "", row |-> <<>>, conflict |-> ""]

\* The target table after the statement succeeded.
insertOrUpsertData(table, insertData, webhookData, idColumn) ==
  LET conflicts ==
        IF hasIdValue(webhookData, idColumn) /\ idColumn \in DOMAIN insertData
        THEN { r \in BagToSet(table) :
                 idColumn \in DOMAIN r /\ r[idColumn] = insertData[idColumn] }
        ELSE {}
  IN  IF conflicts = {}
      THEN table (+) SetToBag({insertData})
      ELSE LET old == CHOOSE r \in conflicts : TRUE
               new == [k \in DOMAIN old \cup DOMAIN insertData |->
                         IF k \in DOMAIN insertData THEN insertData[k] ELSE old[k]]
           IN  (table (-) SetToBag({old})) (+) SetToBag({new})

\* Faulty variant, for comparison: the INSERT leaves the error_message column out.
logWebhookAttemptNoMessage(webhookReceiverId, idempotencyKey, webhookTimestamp, result, errorMessage) ==
  ledger (+) SetToBag({Entry(webhookReceiverId, idempotencyKey, webhookTimestamp,
                             result, "")})

\* Faulty variant, for comparison: the INSERT leaves the ledger alone when the pair is already there.
logWebhookAttemptOnce(webhookReceiverId, idempotencyKey, webhookTimestamp, result, errorMessage) ==
  IF LedgerMatches(webhookReceiverId, idempotencyKey) # {} THEN ledger
  ELSE ledger (+) SetToBag({Entry(webhookReceiverId, idempotencyKey, webhookTimestamp,
                                  result, errorMessage)})

\* Faulty variant, for comparison: the entry replaces those already under its key.
logWebhookAttemptUpsert(webhookReceiverId, idempotencyKey, webhookTimestamp, result, errorMessage) ==
  LET kept == { e \in BagToSet(ledger) : ~(/\ e.webhook_receiver_id = webhookReceiverId
                                            /\ e.webhook_id = idempotencyKey) }
  IN  [e \in kept |-> ledger[e]]
        (+) SetToBag({Entry(webhookReceiverId, idempotencyKey, webhookTimestamp,
                            result, errorMessage)})

\* The ledger after logWebhookAttempt's INSERT succeeded.
logWebhookAttempt(webhookReceiverId, idempotencyKey, webhookTimestamp, result, errorMessage) ==
  ledger (+) SetToBag({Entry(webhookReceiverId, idempotencyKey, webhookTimestamp,
                             result, errorMessage)})

\* ------------------------------------------------------- the handler, step by step

\* No delivery has arrived: the ledger and the target table are empty.
Idle ==
  /\ pc = [p \in Procs |-> "idle"]
  /\ rq = [p \in Procs |-> NoRq]
  /\ resp = [p \in Procs |-> NoResp]
  /\ ops = [p \in Procs |-> NoOps]
  /\ snap = [p \in Procs |-> NoSnap]
  /\ ledger = EmptyBag
  /\ rows = EmptyBag
  /\ writes = EmptyBag
  /\ now = ClockStart
  /\ started = 0
  /\ db = NoDatabase
  /\ pools = 0

Init == Idle /\ call = NoCall

\* The handler returns c.json(r.body, r.status).
Respond(p, r) ==
  /\ pc' = [pc EXCEPT ![p] = "done"]
  /\ resp' = [resp EXCEPT ![p] = r]

\* Faulty variant, for comparison: the top-level catch records the failure in the ledger.
ThrowLogged(p, op) ==
  /\ pc' = [pc EXCEPT ![p] = "log"]
  /\ rq' = [rq EXCEPT ![p].fault = op,
                      ![p].log = Entry(rq[p].rid, rq[p].key, parseInt(rq[p].ts),
                                       INSERT_FAILED, "store error"),
                      ![p].after = InternalError]
  /\ resp' = resp

\* Faulty variant, for comparison: the error of a store read leaves the handler unanswered.
ThrowEscaping(p, op) ==
  /\ pc' = [pc EXCEPT ![p] = "done"]
  /\ resp' = resp
  /\ rq' = [rq EXCEPT ![p].fault = op]

\* A store read threw: the top-level catch answers.
Throw(p, op) ==
  /\ Respond(p, InternalError)
  /\ rq' = [rq EXCEPT ![p].fault = op]

\* Faulty variant, for comparison: the envelope check forgets the body.
MissingFieldsHeadersOnly(d) == ~d.hasHeaders

\* The envelope check of handleHook.
MissingFields(d) == ~d.hasHeaders \/ d.body = ""

\* Faulty variant, for comparison: the invalid-JSON branch answers without logging.
LogThenJsonUnlogged(p, locals, key, result, errorMessage, r) ==
  IF result = INVALID_JSON
  THEN /\ Respond(p, r)
       /\ rq' = [rq EXCEPT ![p] = locals]
  ELSE /\ pc' = [pc EXCEPT ![p] = "log"]
       /\ rq' = [rq EXCEPT ![p] =
                   [locals EXCEPT !.log = Entry(locals.rid, key, parseInt(locals.ts),
                                                result, errorMessage),
                                  !.after = r]]
       /\ resp' = resp

\* Faulty variant, for comparison: a missing table is logged as a failed insert.
LogThenTableAsInsert(p, locals, key, result, errorMessage, r) ==
  /\ pc' = [pc EXCEPT ![p] = "log"]
  /\ rq' = [rq EXCEPT ![p] =
              [locals EXCEPT !.log = Entry(locals.rid, key, parseInt(locals.ts),
                                           IF result = TABLE_NOT_FOUND THEN INSERT_FAILED
                                           ELSE result,
                                           errorMessage),
                             !.after = r]]
  /\ resp' = resp

\* The handler goes on to call logWebhookAttempt and then returns r.
LogThen(p, locals, key, result, errorMessage, r) ==
  /\ pc' = [pc EXCEPT ![p] = "log"]
  /\ rq' = [rq EXCEPT ![p] =
              [locals EXCEPT !.log = Entry(locals.rid, key, parseInt(locals.ts),
                                           result, errorMessage),
                             !.after = r]]
  /\ resp' = resp

\* handleHook up to its first store operation: the path id, the envelope,
\* the normalized headers and the values taken from them.
Receive(p, d) ==
  /\ pc[p] = "idle"
  /\ started < MaxRequests
  /\ started' = started + 1
  /\ snap' = [snap EXCEPT ![p] = [ledger |-> ledger, rows |-> rows]]
  /\ ops' = [ops EXCEPT ![p] = NoOps]
  /\ UNCHANGED <<ledger, rows, writes, now, call>>
  /\ db' = getDatabase(db, pools)
  /\ pools' = poolsCreated(db, pools)
  /\ LET webhookReceiverId == parseInt(d.id)
         headers == NormalizeHeaders(d.headers)
         webhookTimestampStr ==
           IF Get(headers, "webhook-timestamp") # ""
           THEN Get(headers, "webhook-timestamp") ELSE toString(now)
         arrived == [NoRq EXCEPT !.seq = started + 1, !.path = d.id, !.env = d.env,
                                 !.hasHeaders = d.hasHeaders, !.body = d.body,
                                 !.db = getDatabase(db, pools)]
     IN  IF webhookReceiverId = NaN
           THEN /\ Respond(p, Resp(400, FALSE, "Invalid webhook_receiver_id", "", ""))
                /\ rq' = [rq EXCEPT ![p] = arrived]
         ELSE IF d.env # "object"
           THEN /\ Respond(p, Resp(500, FALSE, "Internal server error", "", "bad envelope"))
                /\ rq' = [rq EXCEPT ![p] = arrived]
         ELSE IF MissingFields(d)
           THEN /\ Respond(p, Resp(400, FALSE,
                                   "Missing required fields: headers and body", "", ""))
                /\ rq' = [rq EXCEPT ![p] = arrived]
         ELSE /\ pc' = [pc EXCEPT ![p] = "find"]
              /\ rq' = [rq EXCEPT ![p] =
                          [arrived EXCEPT !.rid = webhookReceiverId,
                                          !.wid = Get(headers, "webhook-id"),
                                          !.tsHeader = Get(headers, "webhook-timestamp"),
                                          !.ts = webhookTimestampStr,
                                          !.sig = Get(headers, "webhook-signature")]]
              /\ resp' = resp

\* findWebhookReceiver, then validateSignature and computeIdempotencyKey,
\* which touch no store.
FindReceiver(p, ok) ==
  /\ pc[p] = "find"
  /\ ops' = Bump(p, "findReceiver")
  /\ UNCHANGED <<snap, ledger, rows, writes, now, started, call, db, pools>>
  /\ LET l == rq[p]
         receiver == findWebhookReceiver(l.rid)
         signatureValidation == validateSignature(receiver, l.wid, l.ts, l.body, l.sig)
     IN  IF ~ok
           THEN Throw(p, "findReceiver")
         ELSE IF receiver = NoReceiver
           THEN /\ Respond(p, Resp(404, FALSE, "Webhook receiver not found", "", ""))
                /\ rq' = rq
         ELSE IF ~signatureValidation.valid
           THEN LogThen(p, [l EXCEPT !.receiver = receiver],
                        IF l.wid # "" THEN l.wid ELSE "unknown",
                        SIGNATURE_FAILED,
                        IF signatureValidation.error # "" THEN signatureValidation.error
                        ELSE "Signature verification failed",
                        Resp(401, FALSE, signatureValidation.error, "", ""))
         ELSE /\ pc' = [pc EXCEPT ![p] = "dupcheck"]
              /\ rq' = [rq EXCEPT ![p] =
                          [l EXCEPT !.receiver = receiver,
                                    !.key = computeIdempotencyKey(receiver, l.wid, l.ts,
                                                                  l.body, l.sig, l.rid)]]
              /\ resp' = resp

\* Faulty variant, for comparison: the body is parsed before the duplicate check.
DupCheckParseFirst(p, ok) ==
  /\ pc[p] = "dupcheck"
  /\ UNCHANGED <<snap, ledger, rows, writes, now, started, call, db, pools>>
  /\ LET l == rq[p]
     IN  IF l.body \notin DOMAIN JsonDocs
           THEN /\ ops' = Bump(p, "jsonParse")
                /\ LogThen(p, l, l.key, INVALID_JSON, "Invalid JSON in body",
                           Resp(400, FALSE, "Invalid JSON in body", "", ""))
         ELSE /\ ops' = [ops EXCEPT ![p]["isDuplicate"] = @ + 1, ![p]["jsonParse"] = @ + 1]
              /\ IF ~ok
                   THEN Throw(p, "isDuplicate")
                 ELSE IF isDuplicateRequest(l.rid, l.key)
                   THEN /\ Respond(p, Resp(200, TRUE, "", "Duplicate request ignored", ""))
                        /\ rq' = [rq EXCEPT ![p].dup = "found"]
                 ELSE /\ pc' = [pc EXCEPT ![p] = "getTable"]
                      /\ rq' = [rq EXCEPT ![p].dup = "none"]
                      /\ resp' = resp

\* isDuplicateRequest, then JSON.parse of the body.
DupCheck(p, ok) ==
  /\ pc[p] = "dupcheck"
  /\ UNCHANGED <<snap, ledger, rows, writes, now, started, call, db, pools>>
  /\ LET l == rq[p]
     IN  IF ~ok
           THEN /\ Throw(p, "isDuplicate")
                /\ ops' = Bump(p, "isDuplicate")
         ELSE IF isDuplicateRequest(l.rid, l.key)
           THEN /\ Respond(p, Resp(200, TRUE, "", "Duplicate request ignored", ""))
                /\ rq' = [rq EXCEPT ![p].dup = "found"]
                /\ ops' = Bump(p, "isDuplicate")
         ELSE /\ ops' = [ops EXCEPT ![p]["isDuplicate"] = @ + 1, ![p]["jsonParse"] = @ + 1]
              /\ IF l.body \notin DOMAIN JsonDocs
                   THEN LogThen(p, [l EXCEPT !.dup = "none"], l.key, INVALID_JSON,
                                "Invalid JSON in body",
                                Resp(400, FALSE, "Invalid JSON in body", "", ""))
                 ELSE /\ pc' = [pc EXCEPT ![p] = "getTable"]
                      /\ rq' = [rq EXCEPT ![p].dup = "none"]
                      /\ resp' = resp

GetTableMetadata(p, ok) ==
  /\ pc[p] = "getTable"
  /\ ops' = Bump(p, "getTable")
  /\ UNCHANGED <<snap, ledger, rows, writes, now, started, call, db, pools>>
  /\ LET l == rq[p]
         notFound == "Table metadata not found for " \o l.receiver.table_name
     IN  IF ~ok
           THEN Throw(p, "getTable")
         ELSE IF ~getTableMetadata(l.receiver.table_name)
           THEN LogThen(p, l, l.key, TABLE_NOT_FOUND, notFound,
                        Resp(404, FALSE, notFound, "", ""))
         ELSE /\ pc' = [pc EXCEPT ![p] = "getFields"]
              /\ rq' = [rq EXCEPT ![p].idColumn = Tables[l.receiver.table_name]]
              /\ resp' = resp

GetFieldNames(p, ok) ==
  /\ pc[p] = "getFields"
  /\ ops' = Bump(p, "getFields")
  /\ UNCHANGED <<snap, ledger, rows, writes, now, started, call, db, pools>>
  /\ IF ~ok
       THEN Throw(p, "getFields")
     ELSE /\ pc' = [pc EXCEPT ![p] = "insert"]
          /\ rq' = [rq EXCEPT ![p].fieldNames = getFieldNames(rq[p].receiver.table_name)]
          /\ resp' = resp

\* error.message of what a rejected row write throws; "" is an error
\* without message.
StoreErrors == {"store error", ""}

\* Faulty variant, for comparison: the success entry is decided before the row write is known to have succeeded.
InsertOrUpsertLogFirst(p, ok) ==
  /\ pc[p] = "insert"
  /\ LET l == rq[p]
         webhookData == JsonDocs[l.body]
         insertData == filterWebhookData(webhookData, l.fieldNames)
         done == ok /\ DOMAIN insertData # {}
     IN  /\ writes' = writes (+) SetToBag({[rid |-> l.rid, key |-> l.key, ok |-> done]})
         /\ rows' = IF done
                    THEN insertOrUpsertData(rows, insertData, webhookData, l.idColumn)
                    ELSE rows
         /\ LogThen(p, [l EXCEPT !.wrote = IF done THEN "ok" ELSE "failed"], l.key,
                    SUCCESS, "", Resp(200, TRUE, "", "", ""))
  /\ ops' = Bump(p, "rowWrite")
  /\ UNCHANGED <<snap, ledger, now, started, call, db, pools>>

\* filterWebhookData and insertOrUpsertData; the store may reject the statement.
InsertOrUpsert(p, ok) ==
  /\ pc[p] = "insert"
  /\ LET l == rq[p]
         webhookData == JsonDocs[l.body]
         insertData == filterWebhookData(webhookData, l.fieldNames)
         done == ok /\ DOMAIN insertData # {}
     IN  /\ writes' = writes (+) SetToBag({[rid |-> l.rid, key |-> l.key, ok |-> done]})
         /\ IF done
              THEN /\ rows' = insertOrUpsertData(rows, insertData, webhookData, l.idColumn)
                   /\ LogThen(p, [l EXCEPT !.wrote = "ok"], l.key, SUCCESS, "",
                              Resp(200, TRUE, "", "", ""))
            ELSE /\ rows' = rows
                 /\ \E message \in StoreErrors :
                      LogThen(p, [l EXCEPT !.wrote = "failed", !.thrown = message], l.key,
                              INSERT_FAILED,
                              IF message # "" THEN message
                              ELSE "Unknown error during insert/upsert",
                              Resp(500, FALSE, "Failed to insert/upsert data", "", message))
  /\ ops' = Bump(p, "rowWrite")
  /\ UNCHANGED <<snap, ledger, now, started, call, db, pools>>

\* Faulty variant, for comparison: a failed ledger INSERT reaches the top-level catch.
LogAttemptFatal(p, ok) ==
  /\ pc[p] = "log"
  /\ LET e == rq[p].log
     IN  ledger' = IF ok
                   THEN logWebhookAttempt(e.webhook_receiver_id, e.webhook_id,
                                          e.webhook_timestamp, e.result, e.error_message)
                   ELSE ledger
  /\ ops' = Bump(p, "ledgerWrite")
  /\ Respond(p, IF ok THEN rq[p].after ELSE InternalError)
  /\ rq' = [rq EXCEPT ![p].logged = IF ok THEN "ok" ELSE "failed"]
  /\ UNCHANGED <<snap, rows, writes, now, started, call, db, pools>>

\* Faulty variant, for comparison: a failed ledger INSERT is tried again.
LogAttemptRetrying(p, ok) ==
  /\ pc[p] = "log"
  /\ ops[p]["ledgerWrite"] < 2
  /\ LET e == rq[p].log
         last == ok \/ ops[p]["ledgerWrite"] = 1
     IN  /\ ledger' = IF ok
                      THEN logWebhookAttempt(e.webhook_receiver_id, e.webhook_id,
                                             e.webhook_timestamp, e.result, e.error_message)
                      ELSE ledger
         /\ IF last
              THEN /\ Respond(p, rq[p].after)
                   /\ rq' = [rq EXCEPT ![p].logged = IF ok THEN "ok" ELSE "failed"]
              ELSE UNCHANGED <<pc, resp, rq>>
  /\ ops' = Bump(p, "ledgerWrite")
  /\ UNCHANGED <<snap, rows, writes, now, started, call, db, pools>>

\* logWebhookAttempt: a failed INSERT is caught and only printed; the handler
\* then returns the response it had decided.
LogAttempt(p, ok) ==
  /\ pc[p] = "log"
  /\ LET e == rq[p].log
     IN  ledger' = IF ok
                   THEN logWebhookAttempt(e.webhook_receiver_id, e.webhook_id,
                                          e.webhook_timestamp, e.result, e.error_message)
                   ELSE ledger
  /\ ops' = Bump(p, "ledgerWrite")
  /\ Respond(p, rq[p].after)
  /\ rq' = [rq EXCEPT ![p].logged = IF ok THEN "ok" ELSE "failed"]
  /\ UNCHANGED <<snap, rows, writes, now, started, call, db, pools>>

\* The response has been sent; the execution's locals are gone.
Finish(p) ==
  /\ pc[p] = "done"
  /\ pc' = [pc EXCEPT ![p] = "idle"]
  /\ rq' = [rq EXCEPT ![p] = NoRq]
  /\ resp' = [resp EXCEPT ![p] = NoResp]
  /\ ops' = [ops EXCEPT ![p] = NoOps]
  /\ snap' = [snap EXCEPT ![p] = NoSnap]
  /\ UNCHANGED <<ledger, rows, writes, now, started, call, db, pools>>

\* The server clock advances; the handler reads it only on entry, so the
\* advance is taken between executions.
Tick ==
  /\ \A p \in Procs : pc[p] \in {"idle", "done"}
  /\ now < ClockStart + MaxTicks
  /\ now' = now + 1
  /\ UNCHANGED <<pc, rq, resp, ops, snap, ledger, rows, writes, started, call, db, pools>>

Step(p) ==
  \/ \E ok \in BOOLEAN : FindReceiver(p, ok)
  \/ \E ok \in BOOLEAN : DupCheck(p, ok)
  \/ \E ok \in BOOLEAN : GetTableMetadata(p, ok)
  \/ \E ok \in BOOLEAN : GetFieldNames(p, ok)
  \/ \E ok \in BOOLEAN : InsertOrUpsert(p, ok)
  \/ \E ok \in BOOLEAN : LogAttempt(p, ok)
  \/ Finish(p)

\* Deliveries handled one after another by one execution at a time, within
\* one second of the server clock; the clock advances in the retry
\* specification.
Next ==
  \/ \E d \in Deliveries : Receive(1, d)
  \/ Step(1)

Spec == Init /\ [][Next]_vars

\* No other execution is in progress.
Quiet(p) == \A q \in Procs \ {p} : pc[q] \in {"idle", "done"}

\* Deliveries handled one after another, the previous exchange staying on
\* record until its execution is finished: the setting of a sender's retry.
NextRetry ==
  \/ \E p \in Procs : \E d \in RetryDeliveries : Quiet(p) /\ Receive(p, d)
  \/ \E p \in Procs : Step(p)
  \/ Tick

SpecRetry == Init /\ [][NextRetry]_vars

\* One delivery for each way through the handler.
LiveDeliveries ==
  ObjectDeliveries({"123"}, {FALSE}, {"m1"}, {"100"}, {"bad", "good"}, {BodyFull, BodyBad})
    \cup ObjectDeliveries({"124"}, {FALSE}, {""}, {""}, {"none"}, {BodyFull})
    \cup ObjectDeliveries({"125", "126", "999", "abc"}, {FALSE}, {"m1"}, {"100"}, {"good"},
                          {BodyFull})
    \cup MalformedDeliveries

\* Deliveries handled one after another, every awaited store operation
\* settling: the store answers or rejects, and the execution goes on.
NextLive ==
  \/ \E d \in LiveDeliveries : Receive(1, d)
  \/ Step(1)

SpecLive == Init /\ [][NextLive]_vars /\ WF_vars(Step(1))

\* Deliveries handled by overlapping executions.
NextConc ==
  \/ \E p \in Procs : \E d \in ConcDeliveries : Receive(p, d)
  \/ \E p \in Procs : Step(p)

SpecConc == Init /\ [][NextConc]_vars

\* ------------------------------------------------------- filtering and writing on their own

\* Parsed payloads: JSON objects over a few top-level keys; "null" is the
\* JSON value null.
PayloadKeys == {"id", "customer_name", "extra"}

PayloadValues == {"1", "null"}

Payloads == UNION { [S -> PayloadValues] : S \in SUBSET PayloadKeys }

\* Field-name sets of the target table, and its id_column ("" is NULL).
FieldSets == SUBSET PayloadKeys

IdColumns == {"", "id"}

\* The target table before the write: empty, or holding the row of id 1.
StoredTables == {EmptyBag, SetToBag({[k \in {"id", "customer_name"} |->
                                        IF k = "id" THEN "1" ELSE "old"]})}

WriteCalls ==
  { [stage |-> "input", webhookData |-> d, fieldNames |-> f, idColumn |-> c,
     before |-> t, table |-> t, insertData |-> <<>>, stmt |-> NoStatement] :
      d \in Payloads, f \in FieldSets, c \in IdColumns, t \in StoredTables }

InitWrite == Idle /\ call \in WriteCalls

\* const insertData = filterWebhookData(webhookData, fieldNames)
FilterPayload ==
  /\ call.stage = "input"
  /\ call' = [call EXCEPT !.stage = "filtered",
                          !.insertData = filterWebhookData(call.webhookData, call.fieldNames)]
  /\ UNCHANGED <<pc, rq, resp, ops, snap, ledger, rows, writes, now, started, db, pools>>

\* await insertOrUpsertData(...): the statement is issued with the filtered
\* row; the store executes it or rejects it (always when it has no column).
IssueWrite(ok) ==
  /\ call.stage = "filtered"
  /\ LET done == ok /\ DOMAIN call.insertData # {}
     IN  call' = [call EXCEPT
                    !.stage = IF done THEN "written" ELSE "rejected",
                    !.stmt = Statement(call.insertData, call.webhookData, call.idColumn),
                    !.table = IF done
                              THEN insertOrUpsertData(call.table, call.insertData,
                                                      call.webhookData, call.idColumn)
                              ELSE call.table]
  /\ UNCHANGED <<pc, rq, resp, ops, snap, ledger, rows, writes, now, started, db, pools>>

NextWrite ==
  \/ FilterPayload
  \/ \E ok \in BOOLEAN : IssueWrite(ok)

SpecWrite == InitWrite /\ [][NextWrite]_vars

\* ------------------------------------------------------- signing and verifying on their own

\* Arguments of the two functions of utils/webhook.ts: identifiers and
\* timestamps with and without the separator ".", two bodies, two secrets.
SignIds == {"a", "a.b"}

SignTimestamps == {"c", "b.c"}

SignBodies == {"{}", "{\"id\":1}"}

SignSecrets == {"s1", "s2"}

SignInputs ==
  [webhookId : SignIds, webhookTimestamp : SignTimestamps, body : SignBodies,
   secret : SignSecrets]

\* The signature computeWebhookSignature returns for the arguments t.
SignatureFor(t) == computeWebhookSignature(t.webhookId, t.webhookTimestamp, t.body, t.secret)

\* Candidates that no call computed: an arbitrary string, the empty
\* string, a digest without its version prefix.
ForgedSignatures == {"v1,invalid_signature_here", "", HmacSha256Base64("s1", "a.c.{}")}

\* What a verifier may be handed: the signature computed for some arguments
\* (madeFor), or a forged string (madeFor is <<>>).
Candidates ==
  { [madeFor |-> t, text |-> SignatureFor(t)] : t \in SignInputs }
    \cup { [madeFor |-> <<>>, text |-> f] : f \in ForgedSignatures }

SignCalls ==
  { [stage |-> "input", args |-> t, signature |-> "", provided |-> "",
     madeFor |-> <<>>, valid |-> FALSE] : t \in SignInputs }

InitSign == Idle /\ call \in SignCalls

\* const signature = await computeWebhookSignature(webhookId, timestamp, body, secret)
ComputeSignature ==
  /\ call.stage = "input"
  /\ call' = [call EXCEPT !.stage = "signed", !.signature = SignatureFor(call.args)]
  /\ UNCHANGED <<pc, rq, resp, ops, snap, ledger, rows, writes, now, started, db, pools>>

\* const isValid = await verifyWebhookSignature(webhookId, timestamp, body,
\* secret, providedSignature), for the arguments that were signed.
VerifySignature(candidate) ==
  /\ call.stage = "signed"
  /\ call' = [call EXCEPT
                !.stage = "verified",
                !.provided = candidate.text,
                !.madeFor = candidate.madeFor,
                !.valid = verifyWebhookSignature(call.args.webhookId,
                                                 call.args.webhookTimestamp,
                                                 call.args.body, call.args.secret,
                                                 candidate.text)]
  /\ UNCHANGED <<pc, rq, resp, ops, snap, ledger, rows, writes, now, started, db, pools>>

NextSign ==
  \/ ComputeSignature
  \/ \E candidate \in Candidates : VerifySignature(candidate)

SpecSign == InitSign /\ [][NextSign]_vars

\* ------------------------------------------------------- request headers on their own

\* A variable that is not in the environment, an argument that is not passed.
Undefined == "(undefined)"

\* JavaScript truthiness of a string or undefined.
Truthy(v) == v # Undefined /\ v # ""

\* The process environment: each key variable is missing, empty or set.
Environments ==
  [API_KEY : {Undefined, "", "k1"}, SUPABASE_ANON_KEY : {Undefined, "", "k2"}]

Methods == {"GET", "POST", "PUT", "PATCH", "DELETE"}

\* authInfo?.token of the tool handler.
Tokens == {Undefined, "", "t"}

\* What the callers pass as additionalHeaders: nothing, or the upsert
\* preference of the webhook handler.
AdditionalHeaders == {<<>>, [k \in {"Prefer"} |-> "resolution=merge-duplicates"]}

getEnv(env, key) == env[key]

\* headers[k] = v
Put(headers, k, v) == [x \in DOMAIN headers \cup {k} |-> IF x = k THEN v ELSE headers[x]]

\* Faulty variant, for comparison: SUPABASE_ANON_KEY is looked at first.
getHeadersAnonFirst(env, method, token, additionalHeaders) ==
  LET apiKey == IF Truthy(getEnv(env, "SUPABASE_ANON_KEY"))
                THEN getEnv(env, "SUPABASE_ANON_KEY") ELSE getEnv(env, "API_KEY")
      defaults == [k \in {"content-type", "prefer"} |->
                     IF k = "prefer" THEN "return=representation" ELSE "application/json"]
      spread == [k \in DOMAIN defaults \cup DOMAIN additionalHeaders |->
                   IF k \in DOMAIN additionalHeaders THEN additionalHeaders[k]
                   ELSE defaults[k]]
      withToken == IF Truthy(token) THEN Put(spread, "authorization", "Bearer " \o token)
                   ELSE spread
  IN  IF Truthy(apiKey) THEN Put(withToken, "apikey", apiKey) ELSE withToken

\* getHeaders; env is the process environment that getEnv reads.
getHeaders(env, method, token, additionalHeaders) ==
  LET apiKey == IF Truthy(getEnv(env, "API_KEY"))
                THEN getEnv(env, "API_KEY") ELSE getEnv(env, "SUPABASE_ANON_KEY")
      defaults == [k \in {"content-type", "prefer"} |->
                     IF k = "prefer" THEN "return=representation" ELSE "application/json"]
      spread == [k \in DOMAIN defaults \cup DOMAIN additionalHeaders |->
                   IF k \in DOMAIN additionalHeaders THEN additionalHeaders[k]
                   ELSE defaults[k]]
      withToken == IF Truthy(token) THEN Put(spread, "authorization", "Bearer " \o token)
                   ELSE spread
  IN  IF Truthy(apiKey) THEN Put(withToken, "apikey", apiKey) ELSE withToken

HeaderCalls ==
  { [stage |-> "input", env |-> e, method |-> m, token |-> t, additionalHeaders |-> a,
     headers |-> <<>>] :
      e \in Environments, m \in Methods, t \in Tokens, a \in AdditionalHeaders }

InitHeaders == Idle /\ call \in HeaderCalls

\* const headers = getHeaders(method, token, additionalHeaders)
BuildHeaders ==
  /\ call.stage = "input"
  /\ call' = [call EXCEPT !.stage = "built",
                          !.headers = getHeaders(call.env, call.method, call.token,
                                                 call.additionalHeaders)]
  /\ UNCHANGED <<pc, rq, resp, ops, snap, ledger, rows, writes, now, started, db, pools>>

NextHeaders == BuildHeaders

SpecHeaders == InitHeaders /\ [][NextHeaders]_vars

\* ------------------------------------------------------- the store handle on its own

\* Callers of closeDatabase, and how many calls of each function are made.
Closers == {1, 2}

MaxGets == 3

MaxCloses == 3

\* Bookkeeping of the calls.  closing[c] is the handle whose destroy() call
\* c of closeDatabase is awaiting (NoDatabase when c is not in a call), and
\* overtaken[c] tells that another call has completed since c began to
\* wait.  since and made are the handles getDatabase has returned and the
\* pools it has created since the last completed closeDatabase, first tells
\* that no getDatabase call has been made since then.  got is what the last
\* getDatabase call returned, gotFresh whether it created the handle,
\* gotFirst whether it was the first call after a completed closeDatabase,
\* gotWhile the handles calls of closeDatabase were destroying at that time
\* and gotOvertaken those among them whose call had been overtaken.
HandleCalls ==
  [stage |-> "handle", closing |-> [c \in Closers |-> NoDatabase],
   overtaken |-> [c \in Closers |-> FALSE], gets |-> 0, closes |-> 0,
   since |-> {}, made |-> 0, first |-> FALSE,
   got |-> NoDatabase, gotFresh |-> FALSE, gotFirst |-> FALSE,
   gotWhile |-> {}, gotOvertaken |-> {}]

InitHandle == Idle /\ call = HandleCalls

\* A call of getDatabase().
GetDatabase ==
  /\ call.stage = "handle" /\ call.gets < MaxGets
  /\ db' = getDatabase(db, pools)
  /\ pools' = poolsCreated(db, pools)
  /\ LET waiting == { c \in Closers : call.closing[c] # NoDatabase }
     IN  call' = [call EXCEPT
                    !.gets = @ + 1,
                    !.since = @ \cup {getDatabase(db, pools)},
                    !.made = @ + (poolsCreated(db, pools) - pools),
                    !.first = FALSE,
                    !.got = getDatabase(db, pools),
                    !.gotFresh = (db = NoDatabase),
                    !.gotFirst = call.first,
                    !.gotWhile = { call.closing[c] : c \in waiting },
                    !.gotOvertaken =
                      { call.closing[c] : c \in { w \in waiting : call.overtaken[w] } }]
  /\ UNCHANGED <<pc, rq, resp, ops, snap, ledger, rows, writes, now, started>>

\* Faulty variant, for comparison: the module forgets the handle before it awaits destroy().
CloseBeginEager(c) ==
  /\ call.stage = "handle" /\ call.closes < MaxCloses
  /\ call.closing[c] = NoDatabase
  /\ db' = NoDatabase
  /\ call' = IF db = NoDatabase
             THEN [call EXCEPT !.closes = @ + 1, !.since = {}, !.made = 0, !.first = TRUE]
             ELSE [call EXCEPT !.closes = @ + 1, !.closing[c] = db, !.overtaken[c] = FALSE]
  /\ UNCHANGED <<pc, rq, resp, ops, snap, ledger, rows, writes, now, started, pools>>

\* closeDatabase() up to its await: without a handle the call completes at
\* once; with one, db.destroy() is called and awaited, the module still
\* holding the handle.
CloseBegin(c) ==
  /\ call.stage = "handle" /\ call.closes < MaxCloses
  /\ call.closing[c] = NoDatabase
  /\ call' = IF db = NoDatabase
             THEN [call EXCEPT !.closes = @ + 1, !.since = {}, !.made = 0, !.first = TRUE]
             ELSE [call EXCEPT !.closes = @ + 1, !.closing[c] = db, !.overtaken[c] = FALSE]
  /\ UNCHANGED <<pc, rq, resp, ops, snap, ledger, rows, writes, now, started, db, pools>>

\* closeDatabase() after its await: db = null, and the call completes.
CloseEnd(c) ==
  /\ call.stage = "handle"
  /\ call.closing[c] # NoDatabase
  /\ db' = NoDatabase
  /\ call' = [call EXCEPT
                !.closing[c] = NoDatabase,
                !.overtaken = [d \in Closers |-> d # c /\ call.closing[d] # NoDatabase],
                !.since = {}, !.made = 0, !.first = TRUE]
  /\ UNCHANGED <<pc, rq, resp, ops, snap, ledger, rows, writes, now, started, pools>>

NextHandle ==
  \/ GetDatabase
  \/ \E c \in Closers : CloseBegin(c)
  \/ \E c \in Closers : CloseEnd(c)

SpecHandle == InitHandle /\ [][NextHandle]_vars

\* ------------------------------------------------------- the handler that owns its handle

\* handleWebhook creates a store handle of its own and destroys it in its
\* finally block.  at[p] is where execution p stands, handle[p] the handle
\* it created, path[p] the way it left the try block, issued[p] the store
\* operations it has issued, threw[p] whether it ended by throwing.
\* destroys[h] counts the destroy() calls on handle h, late is the set of
\* handles a store operation was issued on after destroy(), begun the
\* number of requests begun.
WebhookCalls ==
  [stage |-> "webhook", at |-> [p \in Procs |-> "idle"],
   handle |-> [p \in Procs |-> NoDatabase], path |-> [p \in Procs |-> ""],
   issued |-> [p \in Procs |-> 0], threw |-> [p \in Procs |-> FALSE],
   destroys |-> <<>>, late |-> {}, begun |-> 0]

InitWebhook == Idle /\ call = WebhookCalls

\* Faulty variant, for comparison: createDb hands out the handle it made first.
createDbShared(created) == 1

\* createDb(): a new pool and a new Kysely instance on every call.
createDb(created) == created + 1

\* The bookkeeping after execution p has issued n store operations.
StoreOp(c, p, n) ==
  [c EXCEPT !.issued[p] = @ + n,
            !.late = IF c.destroys[c.handle[p]] > 0 THEN @ \cup {c.handle[p]} ELSE @]

\* Execution p leaves the try block with a return statement.
Exit(c, p, path) == [c EXCEPT !.at[p] = "finally", !.path[p] = path]

\* Execution p leaves the try block with an exception.
Raise(c, p) == [c EXCEPT !.at[p] = "catch"]

WebhookUnchanged == UNCHANGED <<pc, rq, resp, ops, snap, ledger, rows, writes, now, started, db>>

\* The request arrives: createDb(), before the try block.  Without
\* DATABASE_URL createDb throws and the handler ends with no handle.
WhCreate(p) ==
  /\ call.stage = "webhook" /\ call.at[p] = "idle" /\ call.begun < MaxRequests
  /\ \E configured \in BOOLEAN :
       IF configured
       THEN /\ pools' = pools + 1
            /\ call' = [call EXCEPT !.begun = @ + 1, !.at[p] = "param",
                                    !.handle[p] = createDb(pools),
                                    !.destroys = @ @@ (createDb(pools) :> 0)]
       ELSE /\ pools' = pools
            /\ call' = [call EXCEPT !.begun = @ + 1, !.at[p] = "returned",
                                    !.path[p] = "noHandle", !.threw[p] = TRUE]
  /\ WebhookUnchanged

\* parseInt of the path parameter.
WhParam(p) ==
  /\ call.stage = "webhook" /\ call.at[p] = "param"
  /\ \E valid \in BOOLEAN :
       call' = IF valid THEN [call EXCEPT !.at[p] = "json"] ELSE Exit(call, p, "invalidId")
  /\ pools' = pools /\ WebhookUnchanged

\* await c.req.json() and the test of the envelope.
WhJson(p) ==
  /\ call.stage = "webhook" /\ call.at[p] = "json"
  /\ \E body \in {"throws", "missing", "ok"} :
       call' = CASE body = "throws" -> Raise(call, p)
                 [] body = "missing" -> Exit(call, p, "missingFields")
                 [] OTHER -> [call EXCEPT !.at[p] = "receiver"]
  /\ pools' = pools /\ WebhookUnchanged

\* Step 1: the receiver is read from the store.
WhReceiver(p) ==
  /\ call.stage = "webhook" /\ call.at[p] = "receiver"
  /\ \E answer \in {"rejects", "none", "found"} :
       call' = CASE answer = "rejects" -> Raise(StoreOp(call, p, 1), p)
                 [] answer = "none" -> Exit(StoreOp(call, p, 1), p, "receiverNotFound")
                 [] OTHER -> [StoreOp(call, p, 1) EXCEPT !.at[p] = "auth"]
  /\ pools' = pools /\ WebhookUnchanged

\* Step 2: the signature; a mismatch is logged before the response.
WhAuth(p) ==
  /\ call.stage = "webhook" /\ call.at[p] = "auth"
  /\ \E auth \in {"noSecret", "missingHeaders", "mismatch", "passes"} :
       call' = CASE auth = "noSecret" -> Exit(call, p, "secretNotConfigured")
                 [] auth = "missingHeaders" -> Exit(call, p, "missingHmacHeaders")
                 [] auth = "mismatch" -> Exit(StoreOp(call, p, 1), p, "signatureMismatch")
                 [] OTHER -> [call EXCEPT !.at[p] = "dup"]
  /\ pools' = pools /\ WebhookUnchanged

\* Step 3: the ledger is read for the idempotency key.
WhDup(p) ==
  /\ call.stage = "webhook" /\ call.at[p] = "dup"
  /\ \E answer \in {"rejects", "existing", "none"} :
       call' = CASE answer = "rejects" -> Raise(StoreOp(call, p, 1), p)
                 [] answer = "existing" -> Exit(StoreOp(call, p, 1), p, "duplicate")
                 [] OTHER -> [StoreOp(call, p, 1) EXCEPT !.at[p] = "parse"]
  /\ pools' = pools /\ WebhookUnchanged

\* Step 4: JSON.parse of the body; a failure is logged before the response.
WhParse(p) ==
  /\ call.stage = "webhook" /\ call.at[p] = "parse"
  /\ \E valid \in BOOLEAN :
       call' = IF valid THEN [call EXCEPT !.at[p] = "table"]
               ELSE Exit(StoreOp(call, p, 1), p, "invalidJson")
  /\ pools' = pools /\ WebhookUnchanged

\* Step 5: the table metadata; a missing table is logged before the response.
WhTable(p) ==
  /\ call.stage = "webhook" /\ call.at[p] = "table"
  /\ \E answer \in {"rejects", "none", "found"} :
       call' = CASE answer = "rejects" -> Raise(StoreOp(call, p, 1), p)
                 [] answer = "none" -> Exit(StoreOp(call, p, 2), p, "tableNotFound")
                 [] OTHER -> [StoreOp(call, p, 1) EXCEPT !.at[p] = "fields"]
  /\ pools' = pools /\ WebhookUnchanged

\* The field names of the table.
WhFields(p) ==
  /\ call.stage = "webhook" /\ call.at[p] = "fields"
  /\ \E answer \in {"rejects", "ok"} :
       call' = IF answer = "rejects" THEN Raise(StoreOp(call, p, 1), p)
               ELSE [StoreOp(call, p, 1) EXCEPT !.at[p] = "write"]
  /\ pools' = pools /\ WebhookUnchanged

\* Step 6: the row write and the ledger entry of its outcome.
WhWrite(p) ==
  /\ call.stage = "webhook" /\ call.at[p] = "write"
  /\ \E answer \in {"fails", "ok"} :
       call' = IF answer = "fails" THEN Exit(StoreOp(call, p, 2), p, "writeFailure")
               ELSE Exit(StoreOp(call, p, 2), p, "success")
  /\ pools' = pools /\ WebhookUnchanged

\* The top-level catch answers 500.
WhCatch(p) ==
  /\ call.stage = "webhook" /\ call.at[p] = "catch"
  /\ call' = Exit(call, p, "caught")
  /\ pools' = pools /\ WebhookUnchanged

\* finally: await db.destroy(); when it rejects, the handler throws.
WhFinally(p) ==
  /\ call.stage = "webhook" /\ call.at[p] = "finally"
  /\ \E settles \in {"resolves", "rejects"} :
       call' = [call EXCEPT !.at[p] = "returned",
                            !.destroys[call.handle[p]] = @ + 1,
                            !.threw[p] = (settles = "rejects")]
  /\ pools' = pools /\ WebhookUnchanged

\* The execution is over; the process takes the next request.
WhDone(p) ==
  /\ call.stage = "webhook" /\ call.at[p] = "returned"
  /\ call' = [call EXCEPT !.at[p] = "idle", !.handle[p] = NoDatabase, !.path[p] = "",
                          !.issued[p] = 0, !.threw[p] = FALSE]
  /\ pools' = pools /\ WebhookUnchanged

WhStep(p) ==
  \/ WhCreate(p)
  \/ WhParam(p)
  \/ WhJson(p)
  \/ WhReceiver(p)
  \/ WhAuth(p)
  \/ WhDup(p)
  \/ WhParse(p)
  \/ WhTable(p)
  \/ WhFields(p)
  \/ WhWrite(p)
  \/ WhCatch(p)
  \/ WhFinally(p)
  \/ WhDone(p)

NextWebhook == \E p \in Procs : WhStep(p)

SpecWebhook == InitWebhook /\ [][NextWebhook]_vars

\* ------------------------------------------------------- vocabulary of the properties

\* Ledger entries of bag l under (rid, key), counted with multiplicity.
KeyEntries(l, rid, key) ==
  LET m == { e \in BagToSet(l) : e.webhook_receiver_id = rid /\ e.webhook_id = key }
  IN  IF m = {} THEN 0 ELSE BagCardinality([e \in m |-> l[e]])

\* Row writes under (rid, key) that the store accepted: each one inserted or
\* overwrote a row of the target table.
RowWriteCount(rid, key) == CopiesIn([rid |-> rid, key |-> key, ok |-> TRUE], writes)

Accepted(r) == r = Resp(200, TRUE, "", "", "")

Duplicate(r) == r = Resp(200, TRUE, "", "Duplicate request ignored", "")

KnownReceiver(rid) == \E r \in Receivers : r.id = rid

ReceiverOf(rid) == CHOOSE r \in Receivers : r.id = rid

\* Execution p has answered, and every store read it issued was answered.
Answered(p) == pc[p] = "done" /\ rq[p].fault = ""

\* The store as execution p found it is the store now.
StoreUntouched(p) == ledger = snap[p].ledger /\ rows = snap[p].rows

\* ------------------------------------------------------- C1

\* C1: over deliveries handled one after another, store and ledger write
\* failures included, no (receiver id, idempotency key) ever has more than one
\* row write executed against the target table.  Counted are the row writes
\* that took effect; statements the store rejected are left out.
C1_AtMostOnce ==
  \A w \in BagToSet(writes) : RowWriteCount(w.rid, w.key) <= 1

\* ------------------------------------------------------- C2

\* q is the verbatim repeat of the earlier delivery p: same receiver, delivery
\* identifier, timestamp, body and signature, and both have been answered.
Repeat(p, q) ==
  /\ p # q /\ Answered(p) /\ Answered(q)
  /\ 0 < rq[p].seq /\ rq[p].seq < rq[q].seq
  /\ rq[p].path = rq[q].path /\ rq[p].wid = rq[q].wid /\ rq[p].ts = rq[q].ts
  /\ rq[p].body = rq[q].body /\ rq[p].sig = rq[q].sig

\* C2: when a delivery is accepted and then repeated verbatim, the ledger holds
\* exactly one entry for its key, exactly one row write was executed, and the
\* repeat is answered 200 "Duplicate request ignored".
C2_RepeatIsIdempotent ==
  \A p, q \in Procs :
    (Repeat(p, q) /\ Accepted(resp[p])) =>
      /\ KeyEntries(ledger, rq[p].rid, rq[p].key) = 1
      /\ RowWriteCount(rq[p].rid, rq[p].key) = 1
      /\ Duplicate(resp[q])

\* ------------------------------------------------------- C3

\* Execution p derived a key that the ledger already held when p arrived.
KeyAlreadyLogged(p) ==
  /\ rq[p].key # ""
  /\ KeyEntries(snap[p].ledger, rq[p].rid, rq[p].key) > 0

\* C3: a request whose (receiver id, key) is already in the ledger goes from
\* the duplicate check straight to the answer 200 "Duplicate request ignored":
\* it has issued the receiver lookup and the duplicate check and nothing else
\* (no JSON parse, no catalog lookup, no row write, no ledger write), and the
\* ledger and the target table are as it found them.
C3_DuplicateLeavesAllUnchanged ==
  \A p \in Procs :
    (KeyAlreadyLogged(p) /\ rq[p].fault = "" /\ pc[p] # "dupcheck") =>
      /\ pc[p] = "done"
      /\ Duplicate(resp[p])
      /\ ops[p] = [NoOps EXCEPT !["findReceiver"] = 1, !["isDuplicate"] = 1]
      /\ StoreUntouched(p)

C3_Witness ==
  \E p \in Procs : KeyAlreadyLogged(p) /\ Answered(p) /\ Duplicate(resp[p])

\* ------------------------------------------------------- C4

\* C4: over deliveries handled one at a time, the ledger never holds more
\* than one entry for a pair (receiver id, idempotency key).
C4_LedgerUnique ==
  \A e \in BagToSet(ledger) :
    KeyEntries(ledger, e.webhook_receiver_id, e.webhook_id) <= 1

\* ------------------------------------------------------- C5

\* Two overlapping executions of one (receiver id, key) were both answered
\* with success and both had their ledger write accepted.
BothProcessed(p, q) ==
  /\ p # q /\ pc[p] = "done" /\ pc[q] = "done"
  /\ rq[p].rid = rq[q].rid /\ rq[p].key = rq[q].key /\ rq[p].key # ""
  /\ Accepted(resp[p]) /\ Accepted(resp[q])
  /\ rq[p].logged = "ok" /\ rq[q].logged = "ok"

\* C5: overlapping executions of one (receiver id, key) can both pass the
\* duplicate check; whenever both were processed, each had found the ledger
\* without the key, two row writes were executed and the ledger holds two
\* entries for the key.
C5_RaceWindow ==
  \A p, q \in Procs :
    BothProcessed(p, q) =>
      /\ KeyEntries(snap[p].ledger, rq[p].rid, rq[p].key) = 0
      /\ KeyEntries(snap[q].ledger, rq[q].rid, rq[q].key) = 0
      /\ RowWriteCount(rq[p].rid, rq[p].key) >= 2
      /\ KeyEntries(ledger, rq[p].rid, rq[p].key) >= 2

C5_Witness == \E p, q \in Procs : BothProcessed(p, q)

\* ------------------------------------------------------- C6

\* C6: a delivery whose path id matches no receiver is answered 404 "Webhook
\* receiver not found"; it writes no ledger entry and no row, and the ledger
\* and the target table are as it found them.
C6_ReceiverNotFound ==
  \A p \in Procs :
    (pc[p] = "done" /\ ops[p]["findReceiver"] = 1 /\ ~KnownReceiver(rq[p].rid)) =>
      /\ rq[p].fault = "" => resp[p] = Resp(404, FALSE, "Webhook receiver not found", "", "")
      /\ ops[p]["ledgerWrite"] = 0 /\ ops[p]["rowWrite"] = 0
      /\ StoreUntouched(p)

C6_Witness ==
  \E p \in Procs : /\ Answered(p) /\ rq[p].rid = 999 /\ resp[p].status = 404
                    /\ ledger # EmptyBag

\* ------------------------------------------------------- C7

\* A request of the HTTP surface (integer path id, JSON-object envelope)
\* whose envelope lacks the headers map or the body string.
Malformed(p) ==
  /\ parseInt(rq[p].path) # NaN
  /\ rq[p].env = "object"
  /\ ~rq[p].hasHeaders \/ rq[p].body = ""

\* C7: a request whose envelope lacks the headers map or the body string is
\* answered 400 "Missing required fields: headers and body" before any store
\* operation: no read, no row write, no ledger write.
C7_MalformedEnvelope ==
  \A p \in Procs :
    (pc[p] # "idle" /\ Malformed(p)) =>
      /\ pc[p] = "done"
      /\ resp[p] = Resp(400, FALSE, "Missing required fields: headers and body", "", "")
      /\ ops[p] = NoOps
      /\ StoreUntouched(p)

C7_Witness ==
  \E p \in Procs : pc[p] = "done" /\ Malformed(p) /\ rq[p].hasHeaders /\ ledger # EmptyBag

\* ------------------------------------------------------- C8

\* C8: a delivery to an 'hmac' receiver with no secret is answered 500 "HMAC
\* secret not configured" and no ledger entry is written.
C8_SecretNotConfigured ==
  \A p \in Procs :
    ( /\ Answered(p) /\ KnownReceiver(rq[p].rid)
      /\ ReceiverOf(rq[p].rid).auth_type = "hmac"
      /\ ReceiverOf(rq[p].rid).secret = "" ) =>
      /\ resp[p] = Resp(500, FALSE, "HMAC secret not configured", "", "")
      /\ ops[p]["ledgerWrite"] = 0
      /\ ledger = snap[p].ledger

\* ------------------------------------------------------- C9

\* C9: a delivery to an 'hmac' receiver with a secret that lacks webhook-id or
\* webhook-signature is answered 400 "Missing webhook-id or webhook-signature
\* for HMAC validation" and no ledger entry is written.
C9_MissingHmacHeader ==
  \A p \in Procs :
    ( /\ Answered(p) /\ KnownReceiver(rq[p].rid)
      /\ ReceiverOf(rq[p].rid).auth_type = "hmac"
      /\ ReceiverOf(rq[p].rid).secret # ""
      /\ rq[p].wid = "" \/ rq[p].sig = "" ) =>
      /\ resp[p] = Resp(400, FALSE,
                        "Missing webhook-id or webhook-signature for HMAC validation", "", "")
      /\ ops[p]["ledgerWrite"] = 0
      /\ ledger = snap[p].ledger

\* ------------------------------------------------------- C10

\* A delivery to an 'hmac' receiver, both headers given, whose
\* webhook-signature is not the signature computed from it.
Mismatch(p) ==
  /\ Answered(p) /\ KnownReceiver(rq[p].rid)
  /\ ReceiverOf(rq[p].rid).auth_type = "hmac"
  /\ ReceiverOf(rq[p].rid).secret # ""
  /\ rq[p].wid # "" /\ rq[p].sig # ""
  /\ rq[p].sig # "v1," \o HmacSha256Base64(ReceiverOf(rq[p].rid).secret,
                                            rq[p].wid \o "." \o rq[p].ts \o "." \o rq[p].body)

MismatchEntry(p) ==
  Entry(rq[p].rid, rq[p].wid, parseInt(rq[p].ts), SIGNATURE_FAILED,
        "Signature verification failed")

\* C10 as stated: a signature mismatch appends exactly one ledger entry with
\* result 20 keyed by the webhook-id, with error "Signature verification
\* failed", is answered 401 and executes no row write.
C10_MismatchAppendsEntry ==
  \A p \in Procs :
    Mismatch(p) =>
      /\ ledger = snap[p].ledger (+) SetToBag({MismatchEntry(p)})
      /\ resp[p] = Resp(401, FALSE, "Signature verification failed", "", "")
      /\ ops[p]["rowWrite"] = 0

\* C10 amended: a signature mismatch issues exactly one ledger write, of the
\* entry (receiver id, webhook-id, result 20, "Signature verification
\* failed"); the ledger gains exactly that entry when the write is accepted
\* and nothing when it fails; either way the answer is 401 and no row write
\* is executed.
C10_MismatchLogged ==
  \A p \in Procs :
    Mismatch(p) =>
      /\ ops[p]["ledgerWrite"] = 1
      /\ rq[p].log = MismatchEntry(p)
      /\ rq[p].logged = "ok" => ledger = snap[p].ledger (+) SetToBag({MismatchEntry(p)})
      /\ rq[p].logged # "ok" => ledger = snap[p].ledger
      /\ resp[p] = Resp(401, FALSE, "Signature verification failed", "", "")
      /\ ops[p]["rowWrite"] = 0 /\ rows = snap[p].rows

C10_Witness ==
  \E p \in Procs : Mismatch(p) /\ rq[p].logged = "ok" /\ snap[p].ledger # EmptyBag

\* ------------------------------------------------------- C11

\* A delivery to a receiver of auth_type 'none'.
NoneAuth(p) ==
  /\ KnownReceiver(rq[p].rid)
  /\ ReceiverOf(rq[p].rid).auth_type = "none"

\* A first delivery to an auth_type 'none' receiver with no webhook-signature
\* header, a body that is valid JSON and a target table the catalog knows.
NoneFirst(p) ==
  /\ Answered(p) /\ NoneAuth(p)
  /\ rq[p].sig = ""
  /\ rq[p].body \in DOMAIN JsonDocs
  /\ ReceiverOf(rq[p].rid).table_name \in DOMAIN Tables
  /\ KeyEntries(snap[p].ledger, rq[p].rid, rq[p].key) = 0

\* Authentication let execution p through: nothing of a signature failure.
NotRejected(p) ==
  /\ resp[p].status # 401
  /\ rq[p].log.result # SIGNATURE_FAILED
  /\ rq[p].key # ""

\* The payload of p's body restricted to the fields of its target table.
KnownPart(p) ==
  LET doc == JsonDocs[rq[p].body]
      known == Fields[ReceiverOf(rq[p].rid).table_name]
  IN  [k \in DOMAIN doc \cap known |-> doc[k]]

SuccessEntry(p) == Entry(rq[p].rid, rq[p].key, parseInt(rq[p].ts), SUCCESS, "")

\* C11 as stated: authentication never rejects a delivery to an auth_type
\* 'none' receiver, and a first delivery with no webhook-signature, valid JSON
\* and an existing table is written to the table, logged with result 10 and
\* answered 200.
C11_NoneProcessed ==
  \A p \in Procs :
    /\ (Answered(p) /\ NoneAuth(p)) => NotRejected(p)
    /\ NoneFirst(p) =>
         /\ KnownPart(p) \in BagToSet(rows)
         /\ ledger = snap[p].ledger (+) SetToBag({SuccessEntry(p)})
         /\ Accepted(resp[p])

\* C11 amended: authentication never rejects a delivery to an auth_type 'none'
\* receiver; such a first delivery executes exactly one row write, and when
\* the store accepts it the row is in the table, one ledger write of an entry
\* with result 10 is issued (the ledger gains exactly that entry when the
\* write is accepted, nothing when it fails) and the answer is 200.
C11_NoneWritten ==
  \A p \in Procs :
    /\ (Answered(p) /\ NoneAuth(p)) => NotRejected(p)
    /\ NoneFirst(p) =>
         /\ ops[p]["rowWrite"] = 1
         /\ rq[p].wrote = "ok" =>
              /\ KnownPart(p) \in BagToSet(rows)
              /\ ops[p]["ledgerWrite"] = 1
              /\ rq[p].log = SuccessEntry(p)
              /\ rq[p].logged = "ok" =>
                   ledger = snap[p].ledger (+) SetToBag({SuccessEntry(p)})
              /\ rq[p].logged # "ok" => ledger = snap[p].ledger
              /\ Accepted(resp[p])

C11_Witness ==
  \E p \in Procs : /\ NoneFirst(p) /\ rq[p].wid = ""
                    /\ rq[p].wrote = "ok" /\ rq[p].logged = "ok"

\* ------------------------------------------------------- C12

\* Execution p derived an idempotency key.
KeyDerived(p) == KnownReceiver(rq[p].rid) /\ rq[p].key # ""

\* The signature over p's (identifier, timestamp, body) under a keying secret.
SignedWith(p, identifier, secret) ==
  "v1," \o HmacSha256Base64(secret, identifier \o "." \o rq[p].ts \o "." \o rq[p].body)

\* Receiver id, timestamp and body of p, joined by "-".
ContentSource(p) == toString(rq[p].rid) \o "-" \o rq[p].ts \o "-" \o rq[p].body

\* Which rule of the priority order is the first to apply to p.
RuleOf(p) ==
  LET r == ReceiverOf(rq[p].rid)
  IN  IF r.auth_type = "hmac" THEN "a"
      ELSE IF r.secret # "" /\ rq[p].wid # "" THEN "b"
      ELSE IF rq[p].sig # "" THEN "c"
      ELSE "d"

Synthesized(p) == KeyDerived(p) /\ RuleOf(p) = "d"

\* The identifier the synthesized signature is computed over.
IdentifierOrAnon(p) == IF rq[p].wid # "" THEN rq[p].wid ELSE "anon"

\* C13 as stated: a synthesized key is the signature over the delivery's
\* (identifier, timestamp, body) keyed with the concatenation of receiver id,
\* timestamp and body, whether or not the receiver has a secret.
C13_SynthesizedByContent ==
  \A p \in Procs :
    Synthesized(p) => rq[p].key = SignedWith(p, IdentifierOrAnon(p), ContentSource(p))

\* C13 amended: a synthesized key is the signature over (webhook-id, or "anon"
\* when there is none; timestamp; body), keyed with the receiver's secret when
\* one is configured and with "<receiver id>-<timestamp>-<body>" only when
\* none is.
C13_SynthesizedKey ==
  \A p \in Procs :
    Synthesized(p) =>
      LET r == ReceiverOf(rq[p].rid)
      IN  rq[p].key = SignedWith(p, IdentifierOrAnon(p),
                                 IF r.secret # "" THEN r.secret ELSE ContentSource(p))

C13_Witness ==
  \E p \in Procs : /\ Answered(p) /\ Synthesized(p)
                    /\ ReceiverOf(rq[p].rid).secret # ""
                    /\ rq[p].key = SignedWith(p, "anon", ReceiverOf(rq[p].rid).secret)

\* ------------------------------------------------------- C14

\* q is a later delivery to the receiver of p with the same headers and the
\* same body as p, and both derived a key.
SameDelivery(p, q) ==
  /\ p # q /\ Answered(p) /\ Answered(q)
  /\ 0 < rq[p].seq /\ rq[p].seq < rq[q].seq
  /\ rq[p].path = rq[q].path /\ rq[p].body = rq[q].body
  /\ rq[p].wid = rq[q].wid /\ rq[p].tsHeader = rq[q].tsHeader /\ rq[p].sig = rq[q].sig
  /\ KeyDerived(p) /\ KeyDerived(q)

\* C14: two deliveries to one receiver with identical headers and body derive
\* the same key whenever each is received, also for auth_type 'none' and
\* without webhook-timestamp; the second is answered as a duplicate once the
\* first is in the ledger.
C14_KeyDeterminism ==
  \A p, q \in Procs :
    SameDelivery(p, q) =>
      /\ rq[p].key = rq[q].key
      /\ rq[p].logged = "ok" => Duplicate(resp[q])

\* ------------------------------------------------------- C15

\* The ledger gained exactly entry e since execution p arrived when p's
\* ledger write was accepted, and nothing when it failed.
LoggedOnce(p, e) ==
  /\ ops[p]["ledgerWrite"] = 1
  /\ rq[p].log = e
  /\ rq[p].logged = "ok" => ledger = snap[p].ledger (+) SetToBag({e})
  /\ rq[p].logged # "ok" => ledger = snap[p].ledger

\* Execution p passed authentication and the duplicate check, and its body
\* is not valid JSON.
InvalidJson(p) ==
  /\ Answered(p) /\ KeyDerived(p)
  /\ KeyEntries(snap[p].ledger, rq[p].rid, rq[p].key) = 0
  /\ rq[p].body \notin DOMAIN JsonDocs

InvalidJsonEntry(p) ==
  Entry(rq[p].rid, rq[p].key, parseInt(rq[p].ts), INVALID_JSON, "Invalid JSON in body")

\* C15 as stated: a delivery with a body that is not valid JSON appends exactly
\* one ledger entry with result 30 under its key, is answered 400 "Invalid
\* JSON in body" and executes no catalog lookup and no row write.
C15_InvalidJsonAppends ==
  \A p \in Procs :
    InvalidJson(p) =>
      /\ ledger = snap[p].ledger (+) SetToBag({InvalidJsonEntry(p)})
      /\ resp[p] = Resp(400, FALSE, "Invalid JSON in body", "", "")
      /\ ops[p]["getTable"] = 0 /\ ops[p]["getFields"] = 0 /\ ops[p]["rowWrite"] = 0

\* C15 amended: such a delivery issues exactly one ledger write, of an entry
\* with result 30 under its key; the ledger gains exactly that entry when the
\* write is accepted and nothing when it fails; either way the answer is 400
\* "Invalid JSON in body" with no catalog lookup and no row write.
C15_InvalidJsonLogged ==
  \A p \in Procs :
    InvalidJson(p) =>
      /\ LoggedOnce(p, InvalidJsonEntry(p))
      /\ resp[p] = Resp(400, FALSE, "Invalid JSON in body", "", "")
      /\ ops[p]["getTable"] = 0 /\ ops[p]["getFields"] = 0 /\ ops[p]["rowWrite"] = 0
      /\ rows = snap[p].rows

C15_Witness ==
  \E p \in Procs : /\ InvalidJson(p) /\ rq[p].logged = "ok"
                    /\ ReceiverOf(rq[p].rid).auth_type = "hmac"
                    /\ snap[p].ledger # EmptyBag

\* ------------------------------------------------------- C16

\* Execution p passed the duplicate check with a JSON body, and the catalog
\* has no entry for the target table of its receiver.
TableMissing(p) ==
  /\ Answered(p) /\ KeyDerived(p)
  /\ KeyEntries(snap[p].ledger, rq[p].rid, rq[p].key) = 0
  /\ rq[p].body \in DOMAIN JsonDocs
  /\ ReceiverOf(rq[p].rid).table_name \notin DOMAIN Tables

TableMissingText(p) ==
  "Table metadata not found for " \o ReceiverOf(rq[p].rid).table_name

TableMissingEntry(p) ==
  Entry(rq[p].rid, rq[p].key, parseInt(rq[p].ts), TABLE_NOT_FOUND, TableMissingText(p))

\* C16 as stated: when the target table has no catalog entry the delivery
\* appends exactly one ledger entry with result 40 under its key, is answered
\* 404 "Table metadata not found for <table>" and executes no row write.
C16_TableMissingAppends ==
  \A p \in Procs :
    TableMissing(p) =>
      /\ ledger = snap[p].ledger (+) SetToBag({TableMissingEntry(p)})
      /\ resp[p] = Resp(404, FALSE, TableMissingText(p), "", "")
      /\ ops[p]["rowWrite"] = 0

\* C16 amended: such a delivery issues exactly one ledger write, of an entry
\* with result 40 under its key; the ledger gains exactly that entry when the
\* write is accepted and nothing when it fails; either way the answer is 404
\* "Table metadata not found for <table>" and no row write is executed.
C16_TableMissingLogged ==
  \A p \in Procs :
    TableMissing(p) =>
      /\ LoggedOnce(p, TableMissingEntry(p))
      /\ resp[p] = Resp(404, FALSE, TableMissingText(p), "", "")
      /\ ops[p]["rowWrite"] = 0 /\ ops[p]["getFields"] = 0
      /\ rows = snap[p].rows

C16_Witness ==
  \E p \in Procs : /\ TableMissing(p) /\ rq[p].logged = "ok"
                    /\ resp[p].error = "Table metadata not found for nonexistent_table"

\* ------------------------------------------------------- C19

\* Execution p executed its row write and has answered.
Executed(p) == Answered(p) /\ rq[p].wrote # ""

\* The error text logged for a rejected row write.
FailureText(p) ==
  IF rq[p].thrown # "" THEN rq[p].thrown ELSE "Unknown error during insert/upsert"

InsertFailedEntry(p, text) ==
  Entry(rq[p].rid, rq[p].key, parseInt(rq[p].ts), INSERT_FAILED, text)

WriteFailure(p) ==
  Resp(500, FALSE, "Failed to insert/upsert data", "", rq[p].thrown)

\* C19 as stated: a successful row write appends one ledger entry with result
\* 10 and null error and answers 200 {"success":true}; a failed one appends
\* one entry with result 50 carrying the store's error text and answers 500
\* "Failed to insert/upsert data" with the error text as details.
C19_OutcomeAppended ==
  \A p \in Procs :
    Executed(p) =>
      IF rq[p].wrote = "ok"
      THEN /\ ledger = snap[p].ledger (+) SetToBag({SuccessEntry(p)})
           /\ Accepted(resp[p])
      ELSE /\ ledger = snap[p].ledger (+) SetToBag({InsertFailedEntry(p, rq[p].thrown)})
           /\ resp[p] = WriteFailure(p)

\* C19 amended: a successful row write issues one ledger write of an entry
\* with result 10 and null error and answers 200 {"success":true}; a failed
\* one issues one ledger write of an entry with result 50 carrying the store's
\* error text ("Unknown error during insert/upsert" when the error has none)
\* and answers 500 "Failed to insert/upsert data" with the error text as
\* details; the ledger gains exactly that entry when the ledger write is
\* accepted and nothing when it fails.
C19_OutcomeLogged ==
  \A p \in Procs :
    Executed(p) =>
      IF rq[p].wrote = "ok"
      THEN /\ LoggedOnce(p, SuccessEntry(p))
           /\ Accepted(resp[p])
      ELSE /\ LoggedOnce(p, InsertFailedEntry(p, FailureText(p)))
           /\ resp[p] = WriteFailure(p)
           /\ rows = snap[p].rows

C19_Witness ==
  \E p \in Procs : /\ Executed(p) /\ rq[p].wrote = "failed" /\ rq[p].logged = "ok"
                    /\ rq[p].thrown # "" /\ resp[p].details = rq[p].log.error_message

\* ------------------------------------------------------- C20

\* Execution p derived its key and then answered with an error.
FailedAfterKey(p) ==
  /\ pc[p] = "done" /\ KeyDerived(p)
  /\ resp[p].status >= 400

\* C20 as stated: every request that reaches key derivation and then fails,
\* by a store error on the duplicate check, invalid JSON, a failed or empty
\* table lookup, a failed field lookup or a failed row write, writes exactly
\* one ledger entry before its response is returned.
C20_FailuresWriteOneEntry ==
  \A p \in Procs :
    /\ FailedAfterKey(p) => ops[p]["ledgerWrite"] = 1
    /\ (pc[p] = "log" /\ KeyDerived(p)) => resp[p] = NoResp

\* C20 amended: a request that reaches key derivation and then fails by
\* invalid JSON, a missing table or a failed row write issues exactly one
\* ledger write, of an entry with result 30, 40 or 50, before its response is
\* returned; one that fails by a store error on the duplicate check, the
\* table lookup or the field lookup is answered the generic 500 and issues no
\* ledger write.
C20_FailuresLogged ==
  \A p \in Procs :
    /\ (FailedAfterKey(p) /\ rq[p].fault = "") =>
         /\ ops[p]["ledgerWrite"] = 1
         /\ rq[p].log.result \in {INVALID_JSON, TABLE_NOT_FOUND, INSERT_FAILED}
         /\ rq[p].log.webhook_id = rq[p].key
         /\ resp[p] = rq[p].after
    /\ (FailedAfterKey(p) /\ rq[p].fault # "") =>
         /\ rq[p].fault \in {"isDuplicate", "getTable", "getFields"}
         /\ ops[p]["ledgerWrite"] = 0
         /\ ledger = snap[p].ledger
         /\ resp[p] = InternalError
    /\ (pc[p] = "log" /\ KeyDerived(p)) => resp[p] = NoResp

C20_Witness ==
  \E p \in Procs : /\ FailedAfterKey(p) /\ rq[p].fault = "getFields"
                    /\ snap[p].ledger # EmptyBag

\* ------------------------------------------------------- C17

\* The payload restricted to the field-name set.
Restricted(webhookData, fieldNames) ==
  [k \in DOMAIN webhookData \cap fieldNames |-> webhookData[k]]

\* C17: for every parsed payload and every field-name set, the row passed to
\* the store holds exactly the payload's top-level keys that are in the set,
\* each with the payload's value; a key outside the set never appears in the
\* row, and its presence does not stop the statement from being issued.
C17_PayloadFiltering ==
  /\ call.stage \in {"filtered", "written", "rejected"} =>
       /\ DOMAIN call.insertData = DOMAIN call.webhookData \cap call.fieldNames
       /\ \A k \in DOMAIN call.insertData : call.insertData[k] = call.webhookData[k]
       /\ \A k \in DOMAIN call.webhookData \ call.fieldNames : k \notin DOMAIN call.insertData
  /\ call.stage \in {"written", "rejected"} =>
       call.stmt.row = Restricted(call.webhookData, call.fieldNames)
  /\ call.stage = "written" =>
       \E r \in BagToSet(call.table) :
         \A k \in DOMAIN call.insertData : k \in DOMAIN r /\ r[k] = call.webhookData[k]

\* A payload with a key the table knows and a key it does not was written.
C17_Witness ==
  /\ call.stage = "written"
  /\ DOMAIN call.webhookData \ call.fieldNames # {}
  /\ DOMAIN call.webhookData \cap call.fieldNames # {}

\* ------------------------------------------------------- C18

\* The table declares an identity column and the parsed payload has a
\* defined, non-null value for it.
IdentityGiven ==
  /\ call.idColumn # ""
  /\ call.idColumn \in DOMAIN call.webhookData
  /\ call.webhookData[call.idColumn] # "null"

\* Rows of the table as found that the statement's row conflicts with.
Conflicting ==
  { r \in BagToSet(call.before) :
      /\ call.idColumn \in DOMAIN r /\ call.idColumn \in DOMAIN call.insertData
      /\ r[call.idColumn] = call.insertData[call.idColumn] }

\* C18: the statement issued is an upsert, with conflict on the identity
\* column overwriting the filtered columns, if and only if the table declares
\* an identity column and the original parsed payload, not the filtered row,
\* has a defined non-null value for it; otherwise it is a plain insert.
C18_InsertVersusUpsert ==
  call.stage \in {"written", "rejected"} =>
    /\ call.stmt.kind = "upsert" <=> IdentityGiven
    /\ call.stmt.kind = "insert" <=> ~IdentityGiven
    /\ call.stmt.kind = "upsert" => call.stmt.conflict = call.idColumn
    /\ (call.stage = "written" /\ call.stmt.kind = "insert") =>
         call.table = call.before (+) SetToBag({call.insertData})
    /\ (call.stage = "written" /\ call.stmt.kind = "upsert" /\ Conflicting # {}) =>
         /\ BagCardinality(call.table) = BagCardinality(call.before)
         /\ \E r \in BagToSet(call.table) :
              \A k \in DOMAIN call.insertData : r[k] = call.insertData[k]
    /\ (call.stage = "written" /\ call.stmt.kind = "upsert" /\ Conflicting = {}) =>
         call.table = call.before (+) SetToBag({call.insertData})

\* An upsert decided by the original payload: the identity column is not
\* among the table's fields, so the filtered row does not carry it.
C18_Witness ==
  /\ call.stage = "written"
  /\ call.stmt.kind = "upsert"
  /\ call.idColumn \notin DOMAIN call.insertData

\* ------------------------------------------------------- C21

\* Execution p ended in the top-level catch of handleHook: a store read threw,
\* or the envelope was not an object.
Caught(p) ==
  /\ pc[p] = "done"
  /\ \/ rq[p].fault # ""
     \/ parseInt(rq[p].path) # NaN /\ rq[p].env # "object"

BranchResponse(p) ==
  LET e == rq[p].log
  IN  CASE e.result = SUCCESS -> Resp(200, TRUE, "", "", "")
        [] e.result = SIGNATURE_FAILED ->
             Resp(401, FALSE,
                  validateSignature(rq[p].receiver, rq[p].wid, rq[p].ts, rq[p].body,
                                    rq[p].sig).error, "", "")
        [] e.result = INVALID_JSON -> Resp(400, FALSE, "Invalid JSON in body", "", "")
        [] e.result = TABLE_NOT_FOUND -> Resp(404, FALSE, e.error_message, "", "")
        [] e.result = INSERT_FAILED ->
             Resp(500, FALSE, "Failed to insert/upsert data", "", rq[p].thrown)
        [] OTHER -> NoResp

\* C22: in every branch that writes a ledger entry, the response is the one
\* the branch decided whether the ledger write was accepted or failed; a
\* failed ledger write never turns into the generic 500 of the top-level catch.
C22_LedgerFailureNonFatal ==
  \A p \in Procs :
    (pc[p] = "done" /\ rq[p].logged \in {"ok", "failed"}) =>
      /\ resp[p] = BranchResponse(p)
      /\ resp[p].error # "Internal server error"
      /\ rq[p].fault = ""

\* The write of a successful delivery's entry failed and the sender was still
\* answered 200.
C22_Witness ==
  \E p \in Procs :
    /\ pc[p] = "done" /\ rq[p].logged = "failed"
    /\ rq[p].log.result = SUCCESS /\ Accepted(resp[p])
    /\ KeyEntries(ledger, rq[p].rid, rq[p].key) = 0

\* ------------------------------------------------------- C23

ErrorCodes == {SIGNATURE_FAILED, INVALID_JSON, TABLE_NOT_FOUND, INSERT_FAILED}

\* Execution p resolved its receiver and answered with an error.
RejectedAfterReceiver(p) ==
  /\ pc[p] = "done" /\ rq[p].receiver # NoReceiver
  /\ resp[p].status >= 400

\* The ledger holds an entry of receiver rid with an error code that it did
\* not hold when execution p began.
LeftErrorEntry(p) ==
  \E e \in BagToSet(ledger) :
    /\ e.webhook_receiver_id = rq[p].rid /\ e.result \in ErrorCodes
    /\ CopiesIn(e, ledger) > CopiesIn(e, snap[p].ledger)

C24_AppendOnly ==
  [][ledger \sqsubseteq ledger']_vars

\* An entry was appended under a (receiver id, key) that already had one, and
\* the earlier entries are all still in the ledger.
C24_Witness ==
  \E p \in Procs :
    /\ pc[p] = "done" /\ rq[p].logged = "ok"
    /\ KeyEntries(snap[p].ledger, rq[p].log.webhook_receiver_id, rq[p].log.webhook_id) > 0
    /\ ledger = snap[p].ledger (+) SetToBag({rq[p].log})

\* ------------------------------------------------------- C25

ResultCodes == {SUCCESS, SIGNATURE_FAILED, INVALID_JSON, TABLE_NOT_FOUND, INSERT_FAILED}

\* The HTTP status that goes with a result code.
StatusOf(result) ==
  CASE result = SUCCESS -> 200
    [] result = SIGNATURE_FAILED -> 401
    [] result = INVALID_JSON -> 400
    [] result = TABLE_NOT_FOUND -> 404
    [] result = INSERT_FAILED -> 500
    [] OTHER -> 0

\* C25: every ledger entry has a result in {10, 20, 30, 40, 50} and a null
\* error message exactly when its result is 10; the entry an execution hands
\* to the ledger carries the code of the response that execution returns:
\* 10 with 200, 20 with 401, 30 with 400, 40 with 404, 50 with 500.
C25_ResultTaxonomy ==
  /\ \A e \in BagToSet(ledger) :
       /\ e.result \in ResultCodes
       /\ e.error_message = "" <=> e.result = SUCCESS
  /\ \A p \in Procs :
       /\ pc[p] = "log" => rq[p].after.status = StatusOf(rq[p].log.result)
       /\ (pc[p] = "done" /\ rq[p].logged = "ok") =>
            /\ CopiesIn(rq[p].log, ledger) >= 1
            /\ resp[p].status = StatusOf(rq[p].log.result)
            /\ resp[p].success <=> rq[p].log.result = SUCCESS

\* A row write that threw an error without message was answered 500 and
\* logged with result 50 and the default text, next to the entry with result
\* 10 of an earlier delivery.
C25_Witness ==
  \E p \in Procs :
    /\ pc[p] = "done" /\ rq[p].logged = "ok"
    /\ rq[p].log.result = INSERT_FAILED /\ rq[p].thrown = ""
    /\ rq[p].log.error_message = "Unknown error during insert/upsert"
    /\ resp[p].status = 500
    /\ \E e \in BagToSet(ledger) : e.result = SUCCESS

\* ------------------------------------------------------- C28

\* C28: within one request each store operation (receiver lookup, duplicate
\* check, table lookup, field lookup, row write, ledger write) is issued at
\* most once, whatever the outcomes of the operations; a failed row write or
\* ledger write is not issued again.  Seen from the store: the row writes
\* issued, accepted or rejected, and the ledger entries are no more than the
\* requests received.
C28_NoInternalRetries ==
  /\ BagCardinality(writes) <= started
  /\ BagCardinality(ledger) <= started
  /\ \A p \in Procs :
       /\ \A k \in OpKinds : ops[p][k] <= 1
       /\ rq[p].wrote = "failed" => ops[p]["rowWrite"] = 1
       /\ rq[p].logged = "failed" => ops[p]["ledgerWrite"] = 1

\* Both writes of a request failed, and each was issued once.
C28_Witness ==
  \E p \in Procs :
    /\ pc[p] = "done"
    /\ rq[p].wrote = "failed" /\ rq[p].logged = "failed"
    /\ \A k \in OpKinds : ops[p][k] = 1

\* ------------------------------------------------------- C30

\* Execution p has been through authentication: it was rejected there or it
\* went on to derive its key.
Authenticated(p) == rq[p].log.result = SIGNATURE_FAILED \/ rq[p].key # ""

\* Execution p has parsed its body, looked up the catalog or written a row.
PastDupCheck(p) ==
  \E k \in {"jsonParse", "getTable", "getFields", "rowWrite"} : ops[p][k] > 0

\* C30: within a request the receiver lookup precedes authentication,
\* authentication precedes key derivation, key derivation precedes the
\* duplicate check, and the duplicate check precedes JSON parsing, the catalog
\* lookups and the row write.  So a request whose duplicate check found an
\* entry has parsed nothing and written no row, and it is answered 200
\* duplicate also when its body is not valid JSON.
C30_StepOrdering ==
  \A p \in Procs :
    /\ Authenticated(p) => ops[p]["findReceiver"] = 1 /\ rq[p].receiver # NoReceiver
    /\ rq[p].key # "" =>
         /\ validateSignature(rq[p].receiver, rq[p].wid, rq[p].ts, rq[p].body,
                              rq[p].sig).valid
         /\ rq[p].log.result # SIGNATURE_FAILED
    /\ ops[p]["isDuplicate"] > 0 =>
         rq[p].key = computeIdempotencyKey(rq[p].receiver, rq[p].wid, rq[p].ts,
                                           rq[p].body, rq[p].sig, rq[p].rid)
    /\ PastDupCheck(p) =>
         /\ ops[p]["isDuplicate"] = 1 /\ rq[p].fault # "isDuplicate"
         /\ KeyEntries(snap[p].ledger, rq[p].rid, rq[p].key) = 0
    /\ (Answered(p) /\ KeyAlreadyLogged(p)) =>
         /\ ~PastDupCheck(p)
         /\ ops[p]["ledgerWrite"] = 0
         /\ rows = snap[p].rows
         /\ Duplicate(resp[p])

\* A delivery whose body is not valid JSON, under a key the ledger already
\* holds, was answered 200 duplicate.
C30_Witness ==
  \E p \in Procs :
    /\ Answered(p) /\ KeyAlreadyLogged(p)
    /\ rq[p].body \notin DOMAIN JsonDocs
    /\ Duplicate(resp[p])

\* ------------------------------------------------------- C26

\* Arguments t and u differ in exactly one of identifier, timestamp, body
\* and secret.
OneDiffers(t, u) ==
  Cardinality({ f \in {"webhookId", "webhookTimestamp", "body", "secret"} : t[f] # u[f] }) = 1

\* The text that is signed for arguments t.
SignedMessage(t) == t.webhookId \o "." \o t.webhookTimestamp \o "." \o t.body

\* C26 as stated: verifying the signature computed for the same arguments
\* gives true; verifying a candidate that is not that signature gives false;
\* verifying the signature computed for a different body, identifier,
\* timestamp or secret gives false.
C26_RejectsEveryOther ==
  call.stage = "verified" =>
    /\ call.madeFor = call.args => call.valid
    /\ call.provided # call.signature => ~call.valid
    /\ (call.madeFor # <<>> /\ call.madeFor # call.args) => ~call.valid

\* C26 amended: verifying the signature computed for the same arguments
\* gives true; verifying a candidate that is not that signature gives false;
\* verifying the signature computed for a different secret, or for an
\* identifier, timestamp and body whose joined text identifier.timestamp.body
\* is different, gives false; so it does whenever exactly one of the four
\* arguments differs.
C26_SignatureRoundTrip ==
  call.stage = "verified" =>
    /\ call.signature = SignatureFor(call.args)
    /\ call.madeFor = call.args => call.valid
    /\ call.provided # call.signature => ~call.valid
    /\ call.madeFor # <<>> =>
         /\ (\/ call.madeFor.secret # call.args.secret
             \/ SignedMessage(call.madeFor) # SignedMessage(call.args)) => ~call.valid
         /\ OneDiffers(call.madeFor, call.args) => ~call.valid

\* The signature made for the same arguments but another timestamp, one that
\* holds the separator, was verified and rejected.
C26_Witness ==
  /\ call.stage = "verified"
  /\ call.madeFor # <<>> /\ OneDiffers(call.madeFor, call.args)
  /\ call.madeFor.webhookTimestamp = "b.c" /\ call.args.webhookTimestamp = "c"
  /\ ~call.valid

\* ------------------------------------------------------- C29

\* C29: the apikey header of a PostgREST request is the value of API_KEY
\* when API_KEY is set, otherwise the value of SUPABASE_ANON_KEY when that is
\* set, and it is absent when neither is set; the authorization header is
\* present, as "Bearer <token>", exactly when a token is passed.  Set and
\* passed mean: with a non-empty value.
C29_ApiKeyPrecedence ==
  call.stage = "built" =>
    LET h == call.headers
        primary == call.env.API_KEY
        fallback == call.env.SUPABASE_ANON_KEY
    IN  /\ Truthy(primary) => "apikey" \in DOMAIN h /\ h["apikey"] = primary
        /\ (~Truthy(primary) /\ Truthy(fallback)) =>
             "apikey" \in DOMAIN h /\ h["apikey"] = fallback
        /\ (~Truthy(primary) /\ ~Truthy(fallback)) => "apikey" \notin DOMAIN h
        /\ "authorization" \in DOMAIN h <=> Truthy(call.token)
        /\ Truthy(call.token) => h["authorization"] = "Bearer " \o call.token

\* Both variables are set and the request carries API_KEY; no token was
\* passed and the request has no authorization header.
C29_Witness ==
  /\ call.stage = "built"
  /\ call.env.API_KEY = "k1" /\ call.env.SUPABASE_ANON_KEY = "k2"
  /\ call.headers["apikey"] = "k1"
  /\ call.token = Undefined /\ "authorization" \notin DOMAIN call.headers

\* ------------------------------------------------------- C27

\* p and q received the same delivery at the same second.
SameInputs(p, q) ==
  /\ rq[p].path = rq[q].path /\ rq[p].env = rq[q].env
  /\ rq[p].hasHeaders = rq[q].hasHeaders /\ rq[p].body = rq[q].body
  /\ rq[p].wid = rq[q].wid /\ rq[p].tsHeader = rq[q].tsHeader
  /\ rq[p].sig = rq[q].sig /\ rq[p].ts = rq[q].ts

\* The store answered p and q alike: the same reads threw, the duplicate
\* check found or did not find an entry, the writes were accepted or rejected
\* alike.  The receivers and the catalog are the same for both.
SameStoreAnswers(p, q) ==
  /\ rq[p].fault = rq[q].fault /\ rq[p].dup = rq[q].dup
  /\ rq[p].wrote = rq[q].wrote /\ rq[p].thrown = rq[q].thrown
  /\ rq[p].logged = rq[q].logged

\* Two finished executions with the same inputs and the same answers of the
\* store returned the same response, derived the same key, handed the same
\* entry to the ledger and issued the same store operations, whichever came
\* first and whether or not they overlapped.
OutcomeIndependent ==
  \A p, q \in Procs :
    (pc[p] = "done" /\ pc[q] = "done" /\ SameInputs(p, q) /\ SameStoreAnswers(p, q)) =>
      /\ resp[p] = resp[q]
      /\ rq[p].key = rq[q].key /\ rq[p].log = rq[q].log
      /\ ops[p] = ops[q]

\* C27 as stated: handling a delivery reads and writes no in-process mutable
\* state that another request can observe (the module-level handle stays as
\* it was before the first request), and the outcome of a request depends
\* only on its inputs and the contents of the external store.
C27_NoSharedState ==
  /\ db = NoDatabase /\ pools = 0
  /\ \A p \in Procs : rq[p].db = NoDatabase
  /\ OutcomeIndependent

\* C27 amended: the only in-process mutable state handling a delivery reads
\* or writes is the process-wide store handle: the first request creates it,
\* no request replaces it, and every request holds that one handle; the
\* outcome of a request depends only on its inputs and the contents of the
\* external store, not on the requests handled before or concurrently.
C27_OnlyHandleShared ==
  /\ db = NoDatabase <=> started = 0
  /\ db \in {NoDatabase, 1} /\ pools <= 1
  /\ \A p \in Procs : pc[p] # "idle" => rq[p].db = db
  /\ OutcomeIndependent

\* Two overlapping executions of the same delivery hold the one handle; both
\* found no entry, wrote the row and were answered 200.
C27_Witness ==
  \E p, q \in Procs :
    /\ p # q /\ pc[p] = "done" /\ pc[q] = "done"
    /\ SameInputs(p, q) /\ SameStoreAnswers(p, q)
    /\ rq[p].db = db /\ rq[q].db = db /\ db # NoDatabase
    /\ rq[p].dup = "none" /\ Accepted(resp[p]) /\ Accepted(resp[q])

\* ------------------------------------------------------- C31

\* Execution p serves a receiver of auth_type 'hmac'.
HmacAuth(p) ==
  /\ KnownReceiver(rq[p].rid)
  /\ ReceiverOf(rq[p].rid).auth_type = "hmac"

\* The delivery of p carries a webhook-id and the webhook-signature computed
\* from its webhook-id, timestamp and body under the receiver's secret.
Verified(p) ==
  /\ ReceiverOf(rq[p].rid).secret # ""
  /\ rq[p].wid # "" /\ rq[p].sig # ""
  /\ rq[p].sig = "v1," \o HmacSha256Base64(ReceiverOf(rq[p].rid).secret,
                                            rq[p].wid \o "." \o rq[p].ts \o "." \o rq[p].body)

\* C31: for a receiver of auth_type 'hmac', an execution that is at the row
\* write or has issued it carries the signature computed from its webhook-id,
\* timestamp, body and the receiver's secret; and every step that issues a
\* row write or changes the target table is the row write of such an
\* execution (or of one serving a receiver of another auth_type).
C31_AuthenticationGate ==
  /\ [](\A p \in Procs :
          (HmacAuth(p) /\ (pc[p] = "insert" \/ ops[p]["rowWrite"] > 0)) => Verified(p))
  /\ [][(writes' # writes \/ rows' # rows) =>
          \E p \in Procs : /\ pc[p] = "insert"
                           /\ ops'[p]["rowWrite"] = ops[p]["rowWrite"] + 1
                           /\ HmacAuth(p) => Verified(p)]_vars

\* A correctly signed delivery to an 'hmac' receiver had its row written.
C31_Witness ==
  \E p \in Procs :
    /\ pc[p] = "done" /\ HmacAuth(p) /\ Verified(p)
    /\ rq[p].wrote = "ok" /\ rows # EmptyBag

\* ------------------------------------------------------- C32

\* Ledger entries with result 10 under (rid, key), counted with multiplicity.
SuccessEntries(rid, key) ==
  LET m == { e \in BagToSet(ledger) : /\ e.webhook_receiver_id = rid
                                      /\ e.webhook_id = key /\ e.result = SUCCESS }
  IN  IF m = {} THEN 0 ELSE BagCardinality([e \in m |-> ledger[e]])

\* C32: a ledger entry with result 10 under (receiver, key) is there only
\* after a row write under that (receiver, key) was accepted by the store:
\* the entries with result 10 never outnumber the accepted row writes, and an
\* execution holds such an entry only once its own row write has succeeded.
C32_RowWriteBeforeLedger ==
  /\ \A e \in BagToSet(ledger) :
       e.result = SUCCESS =>
         /\ RowWriteCount(e.webhook_receiver_id, e.webhook_id) >= 1
         /\ SuccessEntries(e.webhook_receiver_id, e.webhook_id)
              <= RowWriteCount(e.webhook_receiver_id, e.webhook_id)
  /\ \A p \in Procs :
       rq[p].log.result = SUCCESS =>
         /\ rq[p].wrote = "ok" /\ ops[p]["rowWrite"] = 1
         /\ RowWriteCount(rq[p].rid, rq[p].key) >= 1
         /\ pc[p] = "log" => ops[p]["ledgerWrite"] = 0

\* The converse fails: the row of p is written and its ledger entry is not
\* yet; the retry q under the same key arrived when the row was there and
\* has passed the duplicate check.
C32_Witness ==
  \E p, q \in Procs :
    /\ p # q /\ pc[p] = "log" /\ rq[p].wrote = "ok"
    /\ RowWriteCount(rq[p].rid, rq[p].key) >= 1
    /\ KeyEntries(ledger, rq[p].rid, rq[p].key) = 0
    /\ rq[q].rid = rq[p].rid /\ rq[q].key = rq[p].key
    /\ snap[q].rows # EmptyBag /\ snap[q].rows = rows
    /\ rq[q].dup = "none"

\* ------------------------------------------------------- C33

\* When execution p began, the ledger held an entry of a failed attempt
\* (result 30, 40 or 50) under the receiver and the key p derives.
FailedBefore(p) ==
  /\ rq[p].key # ""
  /\ \E e \in BagToSet(snap[p].ledger) :
       /\ e.webhook_receiver_id = rq[p].rid /\ e.webhook_id = rq[p].key
       /\ e.result \in {INVALID_JSON, TABLE_NOT_FOUND, INSERT_FAILED}

\* C33: a delivery that derives a key under which the ledger holds an entry
\* with result 30, 40 or 50 is answered 200 "Duplicate request ignored": it
\* parses nothing, looks up no catalog, issues no row write and no ledger
\* write, and the target table stays as it was.
C33_FailedAttemptsBlock ==
  \A p \in Procs :
    /\ (FailedBefore(p) /\ pc[p] # "dupcheck") => rq[p].fault # "" \/ rq[p].dup = "found"
    /\ (FailedBefore(p) /\ Answered(p)) =>
         /\ Duplicate(resp[p])
         /\ ops[p]["rowWrite"] = 0 /\ ops[p]["ledgerWrite"] = 0
         /\ ~PastDupCheck(p)
         /\ StoreUntouched(p)

\* The row write of a delivery failed and was logged with result 50; the
\* retry, whose body is valid JSON, was answered 200 duplicate and the table
\* is still without its row.
C33_Witness ==
  \E p \in Procs :
    /\ FailedBefore(p) /\ Answered(p) /\ Duplicate(resp[p])
    /\ rq[p].body \in DOMAIN JsonDocs
    /\ \E e \in BagToSet(snap[p].ledger) :
         /\ e.webhook_receiver_id = rq[p].rid /\ e.webhook_id = rq[p].key
         /\ e.result = INSERT_FAILED
    /\ rows = EmptyBag

\* ------------------------------------------------------- C34

\* When execution p began, the ledger held a signature-failure entry of p's
\* receiver under p's webhook-id.
SignatureFailedBefore(p) ==
  \E e \in BagToSet(snap[p].ledger) :
    /\ e.webhook_receiver_id = rq[p].rid /\ e.webhook_id = rq[p].wid
    /\ e.result = SIGNATURE_FAILED

\* C34: for an 'hmac' receiver, a correctly signed delivery whose webhook-id
\* already has a signature-failure entry in the ledger derives that
\* webhook-id as its key, is answered 200 "Duplicate request ignored" and is
\* not written to the target table.
C34_FailureEntriesShareKeys ==
  \A p \in Procs :
    (HmacAuth(p) /\ Verified(p) /\ SignatureFailedBefore(p) /\ Answered(p)) =>
      /\ rq[p].key = rq[p].wid
      /\ Duplicate(resp[p])
      /\ ops[p]["rowWrite"] = 0 /\ ops[p]["ledgerWrite"] = 0
      /\ StoreUntouched(p)

\* A delivery with a wrong signature was logged under its webhook-id; the
\* correctly signed delivery with that webhook-id, a valid body and an
\* existing table was answered 200 duplicate and the table is empty.
C34_Witness ==
  \E p \in Procs :
    /\ HmacAuth(p) /\ Verified(p) /\ SignatureFailedBefore(p) /\ Answered(p)
    /\ rq[p].body \in DOMAIN JsonDocs
    /\ rq[p].receiver.table_name \in DOMAIN Tables
    /\ Duplicate(resp[p]) /\ rows = EmptyBag

\* ------------------------------------------------------- C35

\* t and u are different (identifier, timestamp, body) under the same
\* secret whose joined texts identifier.timestamp.body coincide.
Ambiguous(t, u) ==
  /\ t # u /\ t.secret = u.secret
  /\ SignedMessage(t) = SignedMessage(u)

\* C35: the signed message is identifier, ".", timestamp, ".", body with no
\* escaping: arguments that differ but join to the same text yield the same
\* signature, and each verifies against the signature made for the other.
C35_MessageAmbiguity ==
  /\ \A t, u \in SignInputs :
       Ambiguous(t, u) => SignatureFor(t) = SignatureFor(u)
  /\ (call.stage = "verified" /\ call.madeFor # <<>>) =>
       (Ambiguous(call.madeFor, call.args) => call.valid)

\* The signature made for identifier "a" and timestamp "b.c" was verified
\* and accepted for identifier "a.b" and timestamp "c".
C35_Witness ==
  /\ call.stage = "verified" /\ call.madeFor # <<>>
  /\ call.args.webhookId = "a.b" /\ call.args.webhookTimestamp = "c"
  /\ call.madeFor.webhookId = "a" /\ call.madeFor.webhookTimestamp = "b.c"
  /\ call.madeFor.body = call.args.body /\ call.madeFor.secret = call.args.secret
  /\ call.valid

\* ------------------------------------------------------- C36

ResponseStatuses == {200, 400, 401, 404, 500}

\* Execution p is between its arrival and its response.
InProgress(p) == pc[p] \notin {"idle", "done"}

\* C36: every invocation of the handler ends, on every branch and for every
\* outcome of the store operations it awaits, with exactly one response: an
\* execution in progress has sent none; it reaches its end; at its end it has
\* sent one, with status 200, 400, 401, 404 or 500; and the only step that
\* sets a response is the one that ends the execution.
C36_ExactlyOneResponse ==
  /\ [](\A p \in Procs :
          /\ InProgress(p) => resp[p] = NoResp
          /\ pc[p] = "done" => resp[p] # NoResp /\ resp[p].status \in ResponseStatuses)
  /\ [][\A p \in Procs :
          resp'[p] # resp[p] =>
            \/ pc[p] # "done" /\ resp[p] = NoResp /\ pc'[p] = "done"
            \/ pc[p] = "done" /\ pc'[p] = "idle" /\ resp'[p] = NoResp]_vars
  /\ \A p \in Procs : InProgress(p) ~> pc[p] = "done"

\* All five statuses went out: here the 500 of a row write that failed after
\* every store read had been answered.
C36_Witness ==
  \E p \in Procs :
    /\ pc[p] = "done" /\ rq[p].wrote = "failed" /\ rq[p].logged = "failed"
    /\ resp[p].status = 500 /\ resp[p].error = "Failed to insert/upsert data"
    /\ ops[p]["getFields"] = 1

\* ------------------------------------------------------- C37

\* Between two completed closeDatabase calls getDatabase returns one
\* instance and creates at most one pool, and the first getDatabase after a
\* completed closeDatabase creates a fresh instance.
OneHandlePerEpoch ==
  /\ Cardinality(call.since) <= 1 /\ call.made <= 1
  /\ call.gotFirst => call.gotFresh /\ call.got = pools

\* C37 as stated: the above, and a getDatabase call made while a call of
\* closeDatabase is awaiting destroy returns the instance being destroyed.
C37_ProcessWideHandle ==
  call.stage = "handle" =>
    /\ OneHandlePerEpoch
    /\ call.gotWhile # {} => call.got \in call.gotWhile

\* C37 amended: the above, and a getDatabase call made while a call of
\* closeDatabase is awaiting destroy returns the instance being destroyed
\* as long as no other closeDatabase call has completed since that call
\* began to wait; once one has, getDatabase returns another instance.
C37_HandleUntilClosed ==
  call.stage = "handle" =>
    /\ OneHandlePerEpoch
    /\ \A i \in call.gotWhile \ call.gotOvertaken : call.got = i /\ ~call.gotFresh
    /\ \A i \in call.gotOvertaken : call.got # i

\* getDatabase was called while closeDatabase was awaiting destroy and
\* returned the instance being destroyed; it was not the first instance the
\* process created.
C37_Witness ==
  /\ call.stage = "handle"
  /\ call.gotWhile # {} /\ call.gotOvertaken = {}
  /\ call.got \in call.gotWhile /\ call.got > 1
  /\ db = call.got

\* ------------------------------------------------------- C38

\* The execution holds a handle and has not reached the end of the handler.
Running(p) == call.handle[p] # NoDatabase /\ call.at[p] \notin {"idle", "returned"}

\* The ways out of the try block.
ExitPaths ==
  {"invalidId", "missingFields", "receiverNotFound", "secretNotConfigured",
   "missingHmacHeaders", "signatureMismatch", "duplicate", "invalidJson",
   "tableNotFound", "writeFailure", "success", "caught"}

\* C38: a handle created at the start of a request is not destroyed while
\* the handler runs and has been destroyed exactly once when the handler is
\* over, whichever way the handler left the try block, and no store
\* operation is issued on a handle after its destroy.
C38_HandleLifecycle ==
  call.stage = "webhook" =>
    /\ \A p \in Procs : Running(p) => call.destroys[call.handle[p]] = 0
    /\ \A p \in Procs :
         (call.at[p] = "returned" /\ call.handle[p] # NoDatabase) =>
           /\ call.destroys[call.handle[p]] = 1
           /\ call.path[p] \in ExitPaths
    /\ \A h \in DOMAIN call.destroys :
         \/ call.destroys[h] = 1
         \/ \E p \in Procs : Running(p) /\ call.handle[p] = h
    /\ call.late = {}

\* One execution has ended after a failed row write and its ledger entry,
\* the other after an early rejection that issued no store operation; each
\* has destroyed its own handle once.
C38_Witness ==
  /\ call.stage = "webhook"
  /\ \E p, q \in Procs :
       /\ call.at[p] = "returned" /\ call.path[p] = "writeFailure" /\ call.issued[p] = 6
       /\ call.at[q] = "returned" /\ call.path[q] = "invalidId" /\ call.issued[q] = 0
       /\ call.handle[p] # call.handle[q]
       /\ call.destroys[call.handle[p]] = 1 /\ call.destroys[call.handle[q]] = 1

====
